---- MODULE Spec2Model ----
(***************************************************************************)
(* Model of the bibliographic deduplication engine of                      *)
(* scripts/processors/book_matcher.py (TitleNormalizer, BookMatcher,       *)
(* BookIndex) and of its caller scripts/processors/build_master.py         *)
(* (add_to_master).                                                        *)
(*                                                                         *)
(* Text is a sequence of characters, each character a one-character        *)
(* string; a code point outside ASCII is written by name ("IDSPACE" is     *)
(* U+3000, "FWCOLON" is U+FF1A, "MIDDOT" is U+30FB, "HWMIDDOT" is U+FF65,  *)
(* "ENDASH" is U+2013, "EMDASH" is U+2014, "FWA" is U+FF21).  The absent   *)
(* value None of Python is the one-element sequence <<"None">>, which is   *)
(* no text: no character has that name.                                    *)
(*                                                                         *)
(* Scores are exact rationals <<n, d>> in lowest terms; the IEEE rounding  *)
(* of Python's float arithmetic is not modelled.                           *)
(***************************************************************************)
EXTENDS Integers, Sequences, FiniteSets, TLC

VARIABLES
    books,              \* BookIndex._books
    isbn_index,         \* BookIndex._isbn_index: cleaned identifier -> position
    normalized_index,   \* BookIndex._normalized_index: title -> list of positions
    aggressive_index,   \* BookIndex._aggressive_index: title -> list of positions
    ngram_index,        \* BookIndex._ngram_index: 3-gram -> set of positions
    last,               \* the last call made and what it returned
    master_records,     \* build_master: the caller's master list
    work_id_to_idx,     \* add_to_master: work_id -> position in the master list
    aliased,            \* whether master_records and books are one list object
    counts,             \* add_to_master: <<added, merged, skipped>>
    adding              \* the call of add under way: its position, record, idx

vars == <<books, isbn_index, normalized_index, aggressive_index, ngram_index,
          last, master_records, work_id_to_idx, aliased, counts, adding>>

index_vars == <<books, isbn_index, normalized_index, aggressive_index, ngram_index>>

None == <<"None">>

\* None where a record (a dict, a MatchResult) may stand
NoRecord == [none |-> TRUE]

\* no call of add is under way
NotAdding == [pc |-> "idle", book |-> NoRecord, idx |-> -1]

\* ------------------------------------------------------------------ text

Max2(a, b) == IF a >= b THEN a ELSE b

Min2(a, b) == IF a <= b THEN a ELSE b

LOWER == <<"a","b","c","d","e","f","g","h","i","j","k","l","m",
           "n","o","p","q","r","s","t","u","v","w","x","y","z">>

UPPER == <<"A","B","C","D","E","F","G","H","I","J","K","L","M",
           "N","O","P","Q","R","S","T","U","V","W","X","Y","Z">>

Digits == {"0","1","2","3","4","5","6","7","8","9"}

Letters == {LOWER[i] : i \in 1..Len(LOWER)} \cup {UPPER[i] : i \in 1..Len(UPPER)}

\* \w of Python's re on the modelled alphabet
WordChars == Letters \cup Digits \cup {"_"}

\* \s of Python's re on the modelled alphabet
Whitespace == {" ", "IDSPACE"}

\* str.lower() of one character
LowerChar(c) ==
    IF \E i \in 1..Len(UPPER) : UPPER[i] = c
    THEN LOWER[CHOOSE i \in 1..Len(UPPER) : UPPER[i] = c]
    ELSE c

\* str.upper() of one character
UpperChar(c) ==
    IF \E i \in 1..Len(LOWER) : LOWER[i] = c
    THEN UPPER[CHOOSE i \in 1..Len(LOWER) : LOWER[i] = c]
    ELSE c

LowerStr(s) == [i \in 1..Len(s) |-> LowerChar(s[i])]

UpperStr(s) == [i \in 1..Len(s) |-> UpperChar(s[i])]

\* s[p:] starts with w (1-based p)
StartsWithAt(w, s, p) ==
    /\ p >= 1
    /\ p + Len(w) - 1 <= Len(s)
    /\ \A k \in 1..Len(w) : s[p + k - 1] = w[k]

\* w in s (Python's substring test)
Contains(w, s) == \E p \in 1..(Len(s) + 1) : StartsWithAt(w, s, p)

\* s.split(sep)[0]: the text before the first occurrence of sep
BeforeFirst(sep, s) ==
    IF Contains(sep, s)
    THEN SubSeq(s, 1, (CHOOSE p \in 1..(Len(s) + 1) :
                          /\ StartsWithAt(sep, s, p)
                          /\ \A q \in 1..(p - 1) : ~StartsWithAt(sep, s, q)) - 1)
    ELSE s

\* str.replace of single characters by strings, given as a table
Subst(tbl, c) == IF c \in DOMAIN tbl THEN tbl[c] ELSE <<c>>

RECURSIVE MapChars(_, _)
MapChars(tbl, s) ==
    IF s = <<>> THEN <<>> ELSE Subst(tbl, Head(s)) \o MapChars(tbl, Tail(s))

\* the first position >= p of s whose character is outside cls (Len(s)+1 if none)
RECURSIVE RunEnd(_, _, _)
RunEnd(s, p, cls) ==
    IF p > Len(s) \/ s[p] \notin cls THEN p ELSE RunEnd(s, p + 1, cls)

\* \b of Python's re between s[p-1] and s[p]
WordBoundary(s, p) ==
    LET before == p - 1 >= 1 /\ p - 1 <= Len(s) /\ s[p - 1] \in WordChars
        after  == p >= 1 /\ p <= Len(s) /\ s[p] \in WordChars
    IN  before # after

\* ------------------------------------------------------------- regex
\* A pattern is a sequence of atoms [k, w]:
\*   lit  : the literal w, compared ignoring case
\*   opt  : one optional character of the set w          (c?)
\*   any0 : zero or more characters of the set w         ([...]*)
\*   any1 : one or more characters of the set w          ([...]+)
\*   not0 : zero or more characters outside the set w    ([^...]*)
\*   alt  : one of the literals in the sequence w, first that fits (a|b|c)
\*   wb   : a word boundary                              (\b)
\* Every pattern of the source is such that a greedy atom is followed by an
\* atom that cannot match what the greedy one took, so the greedy choice is
\* the only one and the match needs no backtracking.

Lit(w) == [k |-> "lit", w |-> w]

Opt(cs) == [k |-> "opt", w |-> cs]

Any0(cs) == [k |-> "any0", w |-> cs]

Any1(cs) == [k |-> "any1", w |-> cs]

Not0(cs) == [k |-> "not0", w |-> cs]

Alt(ws) == [k |-> "alt", w |-> ws]

WB == [k |-> "wb", w |-> <<>>]

LitAt(w, s, p) ==
    /\ p + Len(w) - 1 <= Len(s)
    /\ \A k \in 1..Len(w) : LowerChar(s[p + k - 1]) = LowerChar(w[k])

\* the first position >= p of s whose character is inside cls (Len(s)+1 if none)
RECURSIVE RunEndNot(_, _, _)
RunEndNot(s, p, cls) ==
    IF p > Len(s) \/ s[p] \in cls THEN p ELSE RunEndNot(s, p + 1, cls)

\* The position after the match of one atom at p, or 0 when it does not match.
AtomEnd(a, s, p) ==
    CASE a.k = "lit"  -> IF LitAt(a.w, s, p) THEN p + Len(a.w) ELSE 0
      [] a.k = "opt"  -> IF p <= Len(s) /\ s[p] \in a.w THEN p + 1 ELSE p
      [] a.k = "any0" -> RunEnd(s, p, a.w)
      [] a.k = "any1" -> IF RunEnd(s, p, a.w) > p THEN RunEnd(s, p, a.w) ELSE 0
      [] a.k = "not0" -> RunEndNot(s, p, a.w)
      [] a.k = "alt"  -> IF \E i \in 1..Len(a.w) : LitAt(a.w[i], s, p)
                         THEN p + Len(a.w[CHOOSE i \in 1..Len(a.w) :
                                           /\ LitAt(a.w[i], s, p)
                                           /\ \A j \in 1..(i - 1) : ~LitAt(a.w[j], s, p)])
                         ELSE 0
      [] a.k = "wb"   -> IF WordBoundary(s, p) THEN p ELSE 0

\* re.match of the pattern at position p: the position after the match, or 0.
RECURSIVE MatchFrom(_, _, _)
MatchFrom(atoms, s, p) ==
    IF atoms = <<>> THEN p
    ELSE LET q == AtomEnd(Head(atoms), s, p)
         IN  IF q = 0 THEN 0 ELSE MatchFrom(Tail(atoms), s, q)

\* re.sub(pattern, repl, s): every leftmost non-overlapping non-empty match
\* replaced by repl.
RECURSIVE ReSubFrom(_, _, _, _)
ReSubFrom(atoms, repl, s, i) ==
    IF i > Len(s) THEN <<>>
    ELSE LET e == MatchFrom(atoms, s, i)
         IN  IF e > i
             THEN repl \o ReSubFrom(atoms, repl, s, e)
             ELSE <<s[i]>> \o ReSubFrom(atoms, repl, s, i + 1)

ReSub(atoms, repl, s) == ReSubFrom(atoms, repl, s, 1)

\* str.strip() of whitespace
Strip(s) ==
    LET lo == RunEnd(s, 1, Whitespace)
        hi == IF lo > Len(s) THEN 0
              ELSE CHOOSE h \in lo..Len(s) :
                      /\ s[h] \notin Whitespace
                      /\ \A j \in (h + 1)..Len(s) : s[j] \in Whitespace
    IN  SubSeq(s, lo, hi)

\* -------------------------------------------------------- TitleNormalizer

\* unicodedata.normalize('NFKC', text) on the modelled alphabet: ASCII is left
\* alone, a full-width form becomes its ASCII form, the ideographic space a
\* space, the half-width middle dot the full-width one.
NFKC_MAP ==
    ("FWCOLON" :> <<":">>) @@ ("FWA" :> <<"A">>) @@ ("FWSLASH" :> <<"/">>) @@
    ("FWAMP" :> <<"&">>) @@ ("IDSPACE" :> <<" ">>) @@ ("HWMIDDOT" :> <<"MIDDOT">>)

NFKC(text) == MapChars(NFKC_MAP, text)

\* code points U+FF01..U+FF5E minus 0xFEE0, and U+3000 to a space
FULLWIDTH_MAP ==
    ("FWCOLON" :> <<":">>) @@ ("FWA" :> <<"A">>) @@ ("FWSLASH" :> <<"/">>) @@
    ("FWAMP" :> <<"&">>) @@ ("IDSPACE" :> <<" ">>)

FullwidthToHalfwidth(text) == MapChars(FULLWIDTH_MAP, text)

\* LLENT, RLENT are U+3010, U+3011; LANGLE, RANGLE are U+3008, U+3009 (the
\* quotation marks of the table are outside the modelled alphabet)
BRACKET_MAP ==
    ("LLENT" :> <<"[">>) @@ ("RLENT" :> <<"]">>) @@
    ("LANGLE" :> <<"<">>) @@ ("RANGLE" :> <<">">>)

\* KANJI3 is U+4E09, KANJI10 is U+5341, KANJI0 is U+3007
KANJI_NUMBERS ==
    ("KANJI1" :> <<"1">>) @@ ("KANJI2" :> <<"2">>) @@ ("KANJI3" :> <<"3">>) @@
    ("KANJI10" :> <<"1", "0">>) @@ ("KANJI0" :> <<"0">>)

OptComma == Opt({","})

Edition == Lit(<<"e","d","i","t","i","o","n">>)

Ordinal == Alt(<< <<"s","t">>, <<"n","d">>, <<"r","d">>, <<"t","h">> >>)

WordEdition(w) == <<OptComma, Any0(Whitespace), Lit(w), Any1(Whitespace), Edition>>

\* The English patterns, in the order of the table.  The Japanese patterns
\* that follow them in the table each need the character U+7248, which is
\* outside the modelled alphabet, so they match nothing here.
EDITION_PATTERNS == <<
    <<OptComma, Any0(Whitespace), Any1(Digits), Ordinal, Any1(Whitespace), Edition>>,
    <<OptComma, Any0(Whitespace), Any1(Digits), Ordinal, Any1(Whitespace),
      Lit(<<"e","d">>), Opt({"."})>>,
    <<OptComma, Any0(Whitespace), Edition, Any1(Whitespace), Any1(Digits)>>,
    <<OptComma, Any0(Whitespace), Any1(Digits), Lit(<<"e">>), WB>>,
    WordEdition(<<"f","i","r","s","t">>),
    WordEdition(<<"s","e","c","o","n","d">>),
    WordEdition(<<"t","h","i","r","d">>),
    WordEdition(<<"f","o","u","r","t","h">>),
    WordEdition(<<"f","i","f","t","h">>),
    WordEdition(<<"r","e","v","i","s","e","d">>),
    WordEdition(<<"u","p","d","a","t","e","d">>),
    WordEdition(<<"n","e","w">>) >>

RECURSIVE RemoveEditions(_, _)
RemoveEditions(patterns, text) ==
    IF patterns = <<>> THEN text
    ELSE RemoveEditions(Tail(patterns), ReSub(Head(patterns), <<>>, text))

\* IDCOMMA, IDSTOP are U+3001, U+3002
PUNCT_MAP ==
    ("ENDASH" :> <<"-">>) @@ ("EMDASH" :> <<"-">>) @@ ("HYPHEN" :> <<"-">>) @@
    ("MINUS" :> <<"-">>) @@
    ("IDCOMMA" :> <<",">>) @@ ("IDSTOP" :> <<".">>)

DECORATION_MAP ==
    ("MIDDOT" :> <<" ">>) @@ ("FWCOLON" :> <<" ">>) @@
    ("FWSEMI" :> <<" ">>) @@ ("HWMIDDOT" :> <<" ">>)

NormalizePunctuation(text) ==
    LET t1 == MapChars(PUNCT_MAP, text)
        t2 == ReSub(<<Any0(Whitespace), Lit(<<"&">>), Any0(Whitespace)>>,
                    <<" ","a","n","d"," ">>, t1)
        t3 == MapChars(DECORATION_MAP, t2)
    IN  ReSub(<<Any0(Whitespace), Lit(<<":">>), Any0(Whitespace)>>, <<":"," ">>, t3)

CollapseWhitespace(text) == Strip(ReSub(<<Any1(Whitespace)>>, <<" ">>, text))

StripBrackets(text) ==
    LET t1 == ReSub(<<Lit(<<"(">>), Not0({")"}), Lit(<<")">>)>>, <<>>, text)
        t2 == ReSub(<<Lit(<<"[">>), Not0({"]"}), Lit(<<"]">>)>>, <<>>, t1)
    IN  ReSub(<<Lit(<<"<">>), Not0({">"}), Lit(<<">">>)>>, <<>>, t2)

ARTICLES == << <<"t","h","e">>, <<"a">>, <<"a","n">> >>

RECURSIVE StripArticles(_, _)
StripArticles(articles, text) ==
    IF articles = <<>> THEN text
    ELSE LET a == Head(articles) \o <<" ">>
         IN  StripArticles(Tail(articles),
                 IF StartsWithAt(a, text, 1)
                 THEN SubSeq(text, Len(a) + 1, Len(text))
                 ELSE text)

SUBTITLE_SEPARATORS == <<
    <<":"," ">>, <<" ",":"," ">>, <<" ","-"," ">>, <<" ","ENDASH"," ">>,
    <<" ","EMDASH"," ">>, <<" ","|"," ">>, <<"FWSLASH">>, <<" ","/"," ">> >>

\* the text before the first separator OF THE TABLE that occurs in the text
RECURSIVE MainTitle(_, _)
MainTitle(seps, text) ==
    IF seps = <<>> THEN text
    ELSE IF Contains(Head(seps), text) THEN BeforeFirst(Head(seps), text)
    ELSE MainTitle(Tail(seps), text)

RemoveWhitespace(text) == SelectSeq(text, LAMBDA c : c \notin Whitespace)

\* TitleNormalizer(aggressive).normalize(title)
Normalize(title, aggressive) ==
    IF title = None \/ title = <<>> THEN <<>>
    ELSE LET t1 == NFKC(title)
             t2 == FullwidthToHalfwidth(t1)
             t3 == MapChars(BRACKET_MAP, t2)
             t4 == MapChars(KANJI_NUMBERS, t3)
             t5 == RemoveEditions(EDITION_PATTERNS, t4)
             t6 == LowerStr(t5)
             t7 == NormalizePunctuation(t6)
             t8 == CollapseWhitespace(t7)
         IN  IF aggressive
             THEN RemoveWhitespace(
                      MainTitle(SUBTITLE_SEPARATORS,
                          StripArticles(ARTICLES, StripBrackets(t8))))
             ELSE CollapseWhitespace(t8)

\* ------------------------------------------------------------ inputs
\* The titles, author names and identifiers the records and queries of the
\* model are made of.

T_BCDEF == <<"b"," ","c"," ","d"," ","e"," ","f">>

\* differs from T_BCDEF in its last word
T_BCDEG == <<"b"," ","c"," ","d"," ","e"," ","g">>

\* T_BCDEF in upper case: the same standard-normalized title
T_UPPER == <<"B"," ","C"," ","D"," ","E"," ","F">>

\* T_BCDEF without spaces: the same aggressive-normalized title only
T_TIGHT == <<"b","c","d","e","f">>

\* T_BCDEF shifted by one word
T_CDEFG == <<"c"," ","d"," ","e"," ","f"," ","g">>

\* only bracketed text: an empty aggressive-normalized title
T_PAREN == <<"(","x",")">>

T_EMPTY == <<>>

\* shares nothing with the others
T_XYZ == <<"x"," ","y"," ","z">>

\* a pair of standard similarity exactly 0.70: ratio 4/7, Jaccard 1
T_XY == <<"x"," ","y">>

T_YXYXY == <<"y"," ","x"," ","y"," ","x"," ","y">>

\* five trigrams, three of them those of T_TIGHT
N_LONG == <<"b","c","d","e","f","g","h">>

\* four trigrams, one of them shared with N_LONG
N_ONE == <<"b","c","d","x","y","z">>

\* seven trigrams, five of them the same one; it shares one of its three
\* distinct trigrams with T_XYZ, whose only trigram that is
N_REP == <<"x","x","x","x","x","x","x","y","z">>

\* the titles match is called with
MatchTitles == {T_BCDEF, T_BCDEG, T_UPPER, T_TIGHT, T_CDEFG, T_PAREN, T_EMPTY,
                T_XYZ, T_XY, T_YXYXY}

\* the titles of candidate generation
NgramTitles == {N_LONG, N_ONE, N_REP, T_XYZ, T_TIGHT, T_BCDEG}

TitlePool == MatchTitles \cup NgramTitles

A_SMITH == <<"s","m","i","t","h">>

A_JONES == <<"j","o","n","e","s">>

\* contains A_SMITH
A_JSMITH == <<"j"," ","s","m","i","t","h">>

\* only an honorific: normalizes to the empty name
A_DR == <<"d","r",".">>

AuthorPool == {None, <<>>, A_SMITH, A_JONES, A_JSMITH, A_DR}

I13A == <<"9","7","8","0","0","0","0","0","0","0","0","1","1">>

\* I13A written with hyphens
I13A_HYPHEN == <<"9","7","8","-","0","-","0","0","-","0","0","0","0","0","1","-","1">>

\* the first 12 characters of I13A and another last character
I13B == <<"9","7","8","0","0","0","0","0","0","0","0","1","2">>

\* a 10-character identifier with a lower-case check character
I10X == <<"0","0","0","0","0","0","0","0","2","x">>

\* fails the validity pattern
I_BAD == <<"1","2","3","4","5">>

IsbnPool == {None, <<>>, I13A, I13A_HYPHEN, I13B, I10X, I_BAD}

\* ------------------------------------------------------------ numbers

RECURSIVE GCD(_, _)
GCD(a, b) == IF b = 0 THEN a ELSE GCD(b, a % b)

\* the rational n/d (d > 0, n >= 0) in lowest terms
Frac(n, d) == <<n \div GCD(n, d), d \div GCD(n, d)>>

FLeq(x, y) == x[1] * y[2] <= y[1] * x[2]

FLt(x, y) == x[1] * y[2] < y[1] * x[2]

FAdd(x, y) == Frac(x[1] * y[2] + y[1] * x[2], x[2] * y[2])

FMin(x, y) == IF FLeq(x, y) THEN x ELSE y

FMax(x, y) == IF FLeq(x, y) THEN y ELSE x

\* a decimal literal of the source, in hundredths
Pct(n) == Frac(n, 100)

\* ------------------------------------------------------ SequenceMatcher
\* difflib.SequenceMatcher(None, a, b).ratio() for texts shorter than 200
\* characters (no junk, no popular-element heuristic).  Ranges are 1-based
\* and inclusive.

\* how far a[i..ahi] and b[j..bhi] agree from their starts
RECURSIVE ExtLen(_, _, _, _, _, _)
ExtLen(a, b, i, j, ahi, bhi) ==
    IF i > ahi \/ j > bhi \/ a[i] # b[j] THEN 0
    ELSE 1 + ExtLen(a, b, i + 1, j + 1, ahi, bhi)

\* find_longest_match: <<i, j, k>>, the longest block, of those the one
\* starting earliest in a, of those the one starting earliest in b;
\* k = 0 when nothing matches.
FindLongestMatch(a, b, alo, ahi, blo, bhi) ==
    LET K == [i \in alo..ahi, j \in blo..bhi |-> ExtLen(a, b, i, j, ahi, bhi)]
        Pairs == (alo..ahi) \X (blo..bhi)
        best == IF Pairs = {} THEN 0
                ELSE CHOOSE k \in 0..Len(a) :
                        /\ \E p \in Pairs : K[p[1], p[2]] = k
                        /\ \A p \in Pairs : K[p[1], p[2]] <= k
    IN  IF best = 0 THEN <<alo, blo, 0>>
        ELSE LET i == CHOOSE x \in alo..ahi :
                        /\ \E j \in blo..bhi : K[x, j] = best
                        /\ \A y \in alo..(x - 1) : \A j \in blo..bhi : K[y, j] # best
                 j == CHOOSE x \in blo..bhi :
                        /\ K[i, x] = best
                        /\ \A y \in blo..(x - 1) : K[i, y] # best
             IN  <<i, j, best>>

\* the total size of get_matching_blocks()
RECURSIVE MatchingSize(_, _, _, _, _, _)
MatchingSize(a, b, alo, ahi, blo, bhi) ==
    IF alo > ahi \/ blo > bhi THEN 0
    ELSE LET m == FindLongestMatch(a, b, alo, ahi, blo, bhi)
         IN  IF m[3] = 0 THEN 0
             ELSE m[3]
                  + MatchingSize(a, b, alo, m[1] - 1, blo, m[2] - 1)
                  + MatchingSize(a, b, m[1] + m[3], ahi, m[2] + m[3], bhi)

\* ratio() = 2.0 * matches / (len(a) + len(b)), 1.0 for two empty texts
Ratio(a, b) ==
    IF Len(a) + Len(b) = 0 THEN Frac(1, 1)
    ELSE Frac(2 * MatchingSize(a, b, 1, Len(a), 1, Len(b)), Len(a) + Len(b))

\* set(text.split()): the maximal runs of non-whitespace characters
RECURSIVE TokensFrom(_, _)
TokensFrom(s, p) ==
    LET lo == RunEnd(s, p, Whitespace)
        hi == RunEndNot(s, lo, Whitespace)
    IN  IF lo > Len(s) THEN {}
        ELSE {SubSeq(s, lo, hi - 1)} \cup TokensFrom(s, hi)

Tokens(s) == TokensFrom(s, 1)

\* ----------------------------------------------------------- BookMatcher

HIGH_CONFIDENCE_THRESHOLD == Pct(90)

MEDIUM_CONFIDENCE_THRESHOLD == Pct(80)

LOW_CONFIDENCE_THRESHOLD == Pct(70)

\* Python's truth value of an optional string
Truthy(x) == x # None /\ x # <<>>

\* ^(97[89])?\d{9}[\dX]$ with re.IGNORECASE
IsbnPattern(clean) ==
    LET Body(t) == /\ Len(t) = 10
                   /\ \A i \in 1..9 : t[i] \in Digits
                   /\ t[10] \in Digits \cup {"X", "x"}
    IN  \/ Body(clean)
        \/ /\ Len(clean) = 13
           /\ clean[1] = "9" /\ clean[2] = "7" /\ clean[3] \in {"8", "9"}
           /\ Body(SubSeq(clean, 4, 13))

\* _clean_isbn without the test against the pattern
CleanIsbnUnvalidated(isbn) ==
    IF ~Truthy(isbn) THEN None
    ELSE UpperStr(SelectSeq(isbn, LAMBDA c : c \notin ({"-"} \cup Whitespace)))

\* BookMatcher._clean_isbn
CleanIsbn(isbn) ==
    IF ~Truthy(isbn) THEN None
    ELSE LET clean == SelectSeq(isbn, LAMBDA c : c \notin ({"-"} \cup Whitespace))
         IN  IF IsbnPattern(clean) THEN UpperStr(clean) ELSE None

HONORIFICS == << <<"d","r">>, <<"p","r","o","f">>, <<"m","r">>, <<"m","s">>,
                 <<"m","r","s">>, <<"j","r">>, <<"s","r">>, <<"p","h","d">>,
                 <<"m","d">>, <<"c","f","a">>, <<"c","p","a">> >>

\* \b(dr|prof|...)\.?\b at position p: the position after the match, or 0.
\* The alternatives are tried in order, each first with the dot and then
\* without it.
RECURSIVE HonorificEnd(_, _, _)
HonorificEnd(alts, s, p) ==
    IF alts = <<>> \/ ~WordBoundary(s, p) THEN 0
    ELSE LET e == p + Len(Head(alts))
         IN  IF LitAt(Head(alts), s, p)
                /\ e <= Len(s) /\ s[e] = "." /\ WordBoundary(s, e + 1)
             THEN e + 1
             ELSE IF LitAt(Head(alts), s, p) /\ WordBoundary(s, e)
             THEN e
             ELSE HonorificEnd(Tail(alts), s, p)

RECURSIVE RemoveHonorifics(_, _)
RemoveHonorifics(s, i) ==
    IF i > Len(s) THEN <<>>
    ELSE LET e == HonorificEnd(HONORIFICS, s, i)
         IN  IF e > i THEN RemoveHonorifics(s, e)
             ELSE <<s[i]>> \o RemoveHonorifics(s, i + 1)

\* TitleNormalizer._normalize_author
NormalizeAuthor(author) ==
    LET n1 == LowerStr(FullwidthToHalfwidth(NFKC(author)))
        n2 == RemoveHonorifics(n1, 1)
        n3 == SelectSeq(n2, LAMBDA c : c \in WordChars \cup Whitespace)
    IN  RemoveWhitespace(n3)

AUTHOR_SIMILARITY == Pct(85)

\* _authors_match without the check of the normalized names for emptiness
AuthorsMatchEmptyNames(author_a, author_b) ==
    IF ~Truthy(author_a) \/ ~Truthy(author_b) THEN FALSE
    ELSE LET norm_a == NormalizeAuthor(author_a)
             norm_b == NormalizeAuthor(author_b)
         IN  \/ norm_a = norm_b
             \/ Contains(norm_a, norm_b)
             \/ Contains(norm_b, norm_a)
             \/ FLeq(AUTHOR_SIMILARITY, Ratio(norm_a, norm_b))

\* BookMatcher._authors_match
AuthorsMatch(author_a, author_b) ==
    IF ~Truthy(author_a) \/ ~Truthy(author_b) THEN FALSE
    ELSE LET norm_a == NormalizeAuthor(author_a)
             norm_b == NormalizeAuthor(author_b)
         IN  IF norm_a = <<>> \/ norm_b = <<>> THEN FALSE
             ELSE \/ norm_a = norm_b
                  \/ Contains(norm_a, norm_b)
                  \/ Contains(norm_b, norm_a)
                  \/ FLeq(AUTHOR_SIMILARITY, Ratio(norm_a, norm_b))

\* BookMatcher._calculate_similarity: 0.6 * ratio + 0.4 * jaccard
CalculateSimilarity(text_a, text_b) ==
    IF text_a = <<>> \/ text_b = <<>> THEN Frac(0, 1)
    ELSE LET base == Ratio(text_a, text_b)
             ta == Tokens(text_a)
             tb == Tokens(text_b)
             jaccard == IF ta # {} /\ tb # {}
                        THEN Frac(Cardinality(ta \cap tb), Cardinality(ta \cup tb))
                        ELSE Frac(0, 1)
         IN  Frac(6 * base[1] * jaccard[2] + 4 * jaccard[1] * base[2],
                  10 * base[2] * jaccard[2])

\* the values of a table
Range(f) == {f[x] : x \in DOMAIN f}

\* BookMatcher(), given its two normalizers as tables: the object with its
\* pure methods tabulated on the texts the normalizers yield and on the
\* author names and identifiers given (@@ makes a table an explicit
\* function rather than a rule applied at each use)
MatcherOver(normalizer, aggressive_normalizer, authors, isbns) ==
    [normalizer |-> normalizer,
     aggressive_normalizer |-> aggressive_normalizer,
     calculate_similarity |->
         [p \in (Range(normalizer) \X Range(normalizer))
                \cup (Range(aggressive_normalizer) \X Range(aggressive_normalizer))
             |-> CalculateSimilarity(p[1], p[2])] @@ <<>>,
     authors_match |->
         [p \in authors \X authors |-> AuthorsMatch(p[1], p[2])] @@ <<>>,
     clean_isbn |-> [i \in isbns |-> CleanIsbn(i)] @@ <<>>]

\* BookMatcher() for the titles, author names and identifiers given
NewMatcher(titles, authors, isbns) ==
    MatcherOver([t \in titles |-> Normalize(t, FALSE)] @@ <<>>,
                [t \in titles |-> Normalize(t, TRUE)] @@ <<>>,
                authors, isbns)

\* The matcher of the model.  BookIndex holds a BookMatcher and two
\* normalizers of its own, which compute the same functions: the operators
\* of both classes take this one object as self.
Matcher == NewMatcher(TitlePool, AuthorPool, IsbnPool)

\* self.normalizer.normalize(title)
NormTitle(self, title) == self.normalizer[title]

\* self.aggressive_normalizer.normalize(title)
AggTitle(self, title) == self.aggressive_normalizer[title]

\* self._calculate_similarity(text_a, text_b)
SimilarityOf(self, text_a, text_b) == self.calculate_similarity[<<text_a, text_b>>]

\* self._authors_match(author_a, author_b)
AuthorsMatchOf(self, author_a, author_b) == self.authors_match[<<author_a, author_b>>]

\* self._clean_isbn(isbn)
CleanIsbnOf(self, isbn) == self.clean_isbn[isbn]

\* MatchResult(...)
MatchResult(is_match, confidence, match_type, nta, ntb, details) ==
    [is_match |-> is_match, confidence |-> confidence, match_type |-> match_type,
     normalized_title_a |-> nta, normalized_title_b |-> ntb, details |-> details]

\* an empty dict
EmptyDict == [k \in {} |-> k]

\* the author bonus of the fuzzy tier: min(1.0, best_similarity + 0.1)
AuthorBoost(best_similarity, author_match) ==
    IF author_match THEN FMin(Frac(1, 1), FAdd(best_similarity, Pct(10)))
    ELSE best_similarity

\* Classify with the fuzzy_low branch returning is_match True
ClassifyLowMatches(best_similarity) ==
    IF FLeq(Pct(90), best_similarity) THEN <<TRUE, "fuzzy_high">>
    ELSE IF FLeq(Pct(80), best_similarity) THEN <<TRUE, "fuzzy_medium">>
    ELSE IF FLeq(Pct(70), best_similarity) THEN <<TRUE, "fuzzy_low">>
    ELSE <<FALSE, "no_match">>

\* Classify with > in place of >= in its three comparisons
ClassifyStrict(best_similarity) ==
    IF FLt(Pct(90), best_similarity) THEN <<TRUE, "fuzzy_high">>
    ELSE IF FLt(Pct(80), best_similarity) THEN <<TRUE, "fuzzy_medium">>
    ELSE IF FLt(Pct(70), best_similarity) THEN <<FALSE, "fuzzy_low">>
    ELSE <<FALSE, "no_match">>

\* the if/elif chain that ends BookMatcher.match: <<is_match, match_type>>
Classify(best_similarity) ==
    IF FLeq(HIGH_CONFIDENCE_THRESHOLD, best_similarity) THEN <<TRUE, "fuzzy_high">>
    ELSE IF FLeq(MEDIUM_CONFIDENCE_THRESHOLD, best_similarity) THEN <<TRUE, "fuzzy_medium">>
    ELSE IF FLeq(LOW_CONFIDENCE_THRESHOLD, best_similarity) THEN <<FALSE, "fuzzy_low">>
    ELSE <<FALSE, "no_match">>

\* Check 4 of BookMatcher.match, the fuzzy tier
FuzzyMatch(self, norm_title_a, norm_title_b, agg_title_a, agg_title_b, author_a, author_b, details) ==
    LET similarity == SimilarityOf(self, norm_title_a, norm_title_b)
        aggressive_similarity == SimilarityOf(self, agg_title_a, agg_title_b)
        author_match == AuthorsMatchOf(self, author_a, author_b)
        best_similarity == AuthorBoost(FMax(similarity, aggressive_similarity),
                                       author_match)
        d == details @@ ("title_similarity" :> similarity)
                     @@ ("aggressive_similarity" :> aggressive_similarity)
                     @@ (IF author_match THEN ("author_match" :> TRUE) ELSE EmptyDict)
        c == Classify(best_similarity)
    IN  MatchResult(c[1], best_similarity, c[2], norm_title_a, norm_title_b, d)

\* Checks 2 and 3 of BookMatcher.match, then the fuzzy tier
TitleMatch(self, title_a, title_b, author_a, author_b, details) ==
    LET norm_title_a == NormTitle(self, title_a)
        norm_title_b == NormTitle(self, title_b)
        agg_title_a == AggTitle(self, title_a)
        agg_title_b == AggTitle(self, title_b)
    IN  IF norm_title_a = norm_title_b
        THEN MatchResult(TRUE,
                 IF AuthorsMatchOf(self, author_a, author_b) THEN Pct(100) ELSE Pct(95),
                 "normalized_exact", norm_title_a, norm_title_b, details)
        ELSE IF agg_title_a = agg_title_b
        THEN MatchResult(TRUE,
                 IF AuthorsMatchOf(self, author_a, author_b) THEN Pct(95) ELSE Pct(90),
                 "aggressive_normalized", norm_title_a, norm_title_b, details)
        ELSE FuzzyMatch(self, norm_title_a, norm_title_b, agg_title_a, agg_title_b,
                        author_a, author_b, details)

\* Check 1 of BookMatcher.match: both identifiers present, valid and equal
IsbnExact(self, isbn_a, isbn_b) ==
    /\ Truthy(isbn_a) /\ Truthy(isbn_b)
    /\ CleanIsbnOf(self, isbn_a) # None /\ CleanIsbnOf(self, isbn_b) # None
    /\ CleanIsbnOf(self, isbn_a) = CleanIsbnOf(self, isbn_b)

\* Check 1 of BookMatcher.match: two valid unequal 13-character identifiers
\* with the same first 12 characters
IsbnPrefixSignal(self, isbn_a, isbn_b) ==
    /\ Truthy(isbn_a) /\ Truthy(isbn_b)
    /\ CleanIsbnOf(self, isbn_a) # None /\ CleanIsbnOf(self, isbn_b) # None
    /\ CleanIsbnOf(self, isbn_a) # CleanIsbnOf(self, isbn_b)
    /\ Len(CleanIsbnOf(self, isbn_a)) = 13 /\ Len(CleanIsbnOf(self, isbn_b)) = 13
    /\ SubSeq(CleanIsbnOf(self, isbn_a), 1, 12) = SubSeq(CleanIsbnOf(self, isbn_b), 1, 12)

\* match with Check 1 comparing the identifiers as given, not cleaned
MatchRawIsbn(self, title_a, title_b, author_a, author_b, isbn_a, isbn_b) ==
    IF Truthy(isbn_a) /\ Truthy(isbn_b) /\ isbn_a = isbn_b
       /\ CleanIsbnOf(self, isbn_a) # None
    THEN MatchResult(TRUE, Pct(100), "isbn_exact",
                     NormTitle(self, title_a), NormTitle(self, title_b), ("isbn_match" :> TRUE))
    ELSE TitleMatch(self, title_a, title_b, author_a, author_b,
                    IF IsbnPrefixSignal(self, isbn_a, isbn_b)
                    THEN ("isbn_prefix_match" :> TRUE) ELSE EmptyDict)

\* match returning on the prefix signal, as tier 1 of find_match does
MatchPrefixReturn(self, title_a, title_b, author_a, author_b, isbn_a, isbn_b) ==
    IF IsbnExact(self, isbn_a, isbn_b)
    THEN MatchResult(TRUE, Pct(100), "isbn_exact",
                     NormTitle(self, title_a), NormTitle(self, title_b), ("isbn_match" :> TRUE))
    ELSE IF IsbnPrefixSignal(self, isbn_a, isbn_b)
    THEN MatchResult(TRUE, Pct(98), "isbn_prefix",
                     NormTitle(self, title_a), NormTitle(self, title_b),
                     ("isbn_prefix_match" :> TRUE))
    ELSE TitleMatch(self, title_a, title_b, author_a, author_b, EmptyDict)

\* BookMatcher.match
Match(self, title_a, title_b, author_a, author_b, isbn_a, isbn_b) ==
    IF IsbnExact(self, isbn_a, isbn_b)
    THEN MatchResult(TRUE, Pct(100), "isbn_exact",
                     NormTitle(self, title_a), NormTitle(self, title_b), ("isbn_match" :> TRUE))
    ELSE TitleMatch(self, title_a, title_b, author_a, author_b,
                    IF IsbnPrefixSignal(self, isbn_a, isbn_b)
                    THEN ("isbn_prefix_match" :> TRUE) ELSE EmptyDict)

\* ------------------------------------------------------------- BookIndex
\* A book record holds the fields the engine reads:
\*   [title, authors, v2, editions, isbn_or_issn, work_id]
\* authors is the list of author names; v2 says whether the record has an
\* 'editions' list, a list of [edition_number, formats], formats a list of
\* [format_type, isbn]; isbn_or_issn is the v1 field.  An identifier that a
\* record does not carry is None.  Positions in the record list are
\* Python's, counted from 0.

FormatRec(format_type, isbn) == [format_type |-> format_type, isbn |-> isbn]

EditionRec(edition_number, formats) ==
    [edition_number |-> edition_number, formats |-> formats]

\* the first truthy isbn of a list of formats, None if there is none
RECURSIVE FirstFormatIsbn(_)
FirstFormatIsbn(formats) ==
    IF formats = <<>> THEN None
    ELSE IF Truthy(Head(formats).isbn) THEN Head(formats).isbn
    ELSE FirstFormatIsbn(Tail(formats))

\* the first truthy isbn of a list of editions, None if there is none
RECURSIVE FirstEditionIsbn(_)
FirstEditionIsbn(editions) ==
    IF editions = <<>> THEN None
    ELSE IF FirstFormatIsbn(Head(editions).formats) # None
    THEN FirstFormatIsbn(Head(editions).formats)
    ELSE FirstEditionIsbn(Tail(editions))

\* BookMatcher._extract_isbn
ExtractIsbn(book) ==
    IF book.v2 /\ FirstEditionIsbn(book.editions) # None
    THEN FirstEditionIsbn(book.editions)
    ELSE book.isbn_or_issn

\* authors[0] if authors else None
FirstAuthor(book) == IF book.authors = <<>> THEN None ELSE book.authors[1]

\* the record at a position of a list
BookAt(bs, idx) == bs[idx + 1]

\* d[k] = v on a dict
Put(d, k, v) == (k :> v) @@ d

\* the four index structures as one value
EmptyMaps == [isbn |-> EmptyDict, norm |-> EmptyDict, agg |-> EmptyDict,
              ngram |-> EmptyDict]

\* BookIndex._generate_ngrams
GenerateNgrams(text, n) ==
    IF Len(text) < n THEN (IF text # <<>> THEN <<text>> ELSE <<>>)
    ELSE [i \in 1..(Len(text) - n + 1) |-> SubSeq(text, i, i + n - 1)]

\* the ISBN part of _index_book without the 12-character prefix key
IndexIsbnNoPrefix(self, d, idx, book) ==
    LET clean_isbn == CleanIsbnOf(self, ExtractIsbn(book))
    IN  IF clean_isbn = None THEN d
        ELSE Put(d, clean_isbn, idx)

\* the ISBN part of _index_book keeping the first position of a key
IndexIsbnKeepFirst(self, d, idx, book) ==
    LET clean_isbn == CleanIsbnOf(self, ExtractIsbn(book))
        Keep(e, key) == IF key \in DOMAIN e THEN e ELSE Put(e, key, idx)
    IN  IF clean_isbn = None THEN d
        ELSE IF Len(clean_isbn) = 13
        THEN Keep(Keep(d, clean_isbn), SubSeq(clean_isbn, 1, 12))
        ELSE Keep(d, clean_isbn)

\* the ISBN part of BookIndex._index_book
IndexIsbn(self, d, idx, book) ==
    LET clean_isbn == CleanIsbnOf(self, ExtractIsbn(book))
    IN  IF clean_isbn = None THEN d
        ELSE IF Len(clean_isbn) = 13
        THEN Put(Put(d, clean_isbn, idx), SubSeq(clean_isbn, 1, 12), idx)
        ELSE Put(d, clean_isbn, idx)

\* the title part of _index_book without its test that the key is not empty
IndexTitleEmptyKeys(d, key, idx) ==
    IF key \in DOMAIN d THEN Put(d, key, Append(d[key], idx))
    ELSE Put(d, key, <<idx>>)

\* d[key].append(idx), creating the list when the key is new; nothing for an
\* empty key
IndexTitle(d, key, idx) ==
    IF key = <<>> THEN d
    ELSE IF key \in DOMAIN d THEN Put(d, key, Append(d[key], idx))
    ELSE Put(d, key, <<idx>>)

\* the loop over the n-grams of BookIndex._index_book
RECURSIVE IndexNgrams(_, _, _)
IndexNgrams(d, ngrams, idx) ==
    IF ngrams = <<>> THEN d
    ELSE LET g == Head(ngrams)
         IN  IndexNgrams(Put(d, g, (IF g \in DOMAIN d THEN d[g] ELSE {}) \cup {idx}),
                         Tail(ngrams), idx)

\* _index_book entering the titles of a record without testing that they
\* are not empty
IndexBookEmptyTitles(self, m, idx, book) ==
    LET agg_title == AggTitle(self, book.title)
    IN  [isbn  |-> IndexIsbn(self, m.isbn, idx, book),
         norm  |-> IndexTitleEmptyKeys(m.norm, NormTitle(self, book.title), idx),
         agg   |-> IndexTitleEmptyKeys(m.agg, agg_title, idx),
         ngram |-> IF agg_title = <<>> THEN m.ngram
                   ELSE IndexNgrams(m.ngram, GenerateNgrams(agg_title, 3), idx)]

\* _index_book without its update of the aggressive-title map
IndexBookPartial(self, m, idx, book) ==
    LET agg_title == AggTitle(self, book.title)
    IN  [isbn  |-> IndexIsbn(self, m.isbn, idx, book),
         norm  |-> IndexTitle(m.norm, NormTitle(self, book.title), idx),
         agg   |-> m.agg,
         ngram |-> IF agg_title = <<>> THEN m.ngram
                   ELSE IndexNgrams(m.ngram, GenerateNgrams(agg_title, 3), idx)]

\* BookIndex._index_book
IndexBook(self, m, idx, book) ==
    LET agg_title == AggTitle(self, book.title)
    IN  [isbn  |-> IndexIsbn(self, m.isbn, idx, book),
         norm  |-> IndexTitle(m.norm, NormTitle(self, book.title), idx),
         agg   |-> IndexTitle(m.agg, agg_title, idx),
         ngram |-> IF agg_title = <<>> THEN m.ngram
                   ELSE IndexNgrams(m.ngram, GenerateNgrams(agg_title, 3), idx)]

\* the loop of BookIndex.build over enumerate(books), from position idx on
RECURSIVE BuildFrom(_, _, _, _)
BuildFrom(self, m, bs, idx) ==
    IF idx >= Len(bs) THEN m
    ELSE BuildFrom(self, IndexBook(self, m, idx, BookAt(bs, idx)), bs, idx + 1)

\* the index structures of the current state as one value
Maps == [isbn |-> isbn_index, norm |-> normalized_index,
         agg |-> aggressive_index, ngram |-> ngram_index]

\* the default min_overlap of _find_candidates_by_ngram, in hundredths
MIN_OVERLAP == 30

\* max(1, int(len(ngrams) * min_overlap)), min_overlap in hundredths
MinMatches(n, min_overlap) == Max2(1, (n * min_overlap) \div 100)

\* candidate_counts of BookIndex._find_candidates_by_ngram: one count per
\* element of the query's n-gram list whose posting set holds the position
CandidateCount(m, ngrams, idx) ==
    Cardinality({i \in 1..Len(ngrams) :
                    ngrams[i] \in DOMAIN m.ngram /\ idx \in m.ngram[ngrams[i]]})

\* BookIndex._find_candidates_by_ngram
FindCandidatesByNgram(m, agg_title, min_overlap) ==
    LET ngrams == GenerateNgrams(agg_title, 3)
        seen == UNION {m.ngram[g] : g \in {ngrams[i] : i \in 1..Len(ngrams)}
                                          \cap DOMAIN m.ngram}
    IN  IF agg_title = <<>> \/ ngrams = <<>> THEN {}
        ELSE {idx \in seen :
                 CandidateCount(m, ngrams, idx) >= MinMatches(Len(ngrams), min_overlap)}

\* what find_match returns on a hit: the matched record and the MatchResult
\* (pos is the position of the matched record and tier the tier that
\* returned, both kept for the properties)
Found(bs, idx, result, tier) ==
    [found |-> TRUE, book |-> BookAt(bs, idx), result |-> result, pos |-> idx,
     tier |-> tier]

\* what find_match returns when no tier yields a match: None
NotFound == [found |-> FALSE, book |-> NoRecord, result |-> NoRecord, pos |-> -1,
             tier |-> 0]

\* Tier 1 of BookIndex.find_match: {} when the tier yields nothing
IsbnTier(self, m, bs, book) ==
    LET clean_isbn == CleanIsbnOf(self, ExtractIsbn(book))
        norm_a == NormTitle(self, book.title)
    IN  IF clean_isbn = None THEN {}
        ELSE IF clean_isbn \in DOMAIN m.isbn
        THEN {Found(bs, m.isbn[clean_isbn],
                  MatchResult(TRUE, Pct(100), "isbn_exact", norm_a,
                      NormTitle(self, BookAt(bs, m.isbn[clean_isbn]).title),
                      ("isbn_match" :> TRUE)), 1)}
        ELSE IF Len(clean_isbn) = 13 /\ SubSeq(clean_isbn, 1, 12) \in DOMAIN m.isbn
        THEN {Found(bs, m.isbn[SubSeq(clean_isbn, 1, 12)],
                  MatchResult(TRUE, Pct(98), "isbn_prefix", norm_a,
                      NormTitle(self, BookAt(bs, m.isbn[SubSeq(clean_isbn, 1, 12)]).title),
                      ("isbn_prefix_match" :> TRUE)), 1)}
        ELSE {}

\* Tier 2 taking the first record of the bucket whose author matches,
\* where there is one
NormalizedTierAuthorFirst(self, m, bs, book) ==
    LET norm_title == NormTitle(self, book.title)
    IN  IF norm_title \notin DOMAIN m.norm THEN {}
        ELSE LET bucket == m.norm[norm_title]
                 agree == {n \in 1..Len(bucket) :
                             AuthorsMatchOf(self, FirstAuthor(book),
                                            FirstAuthor(BookAt(bs, bucket[n])))}
                 matched_idx == IF agree = {} THEN bucket[1]
                                ELSE bucket[CHOOSE n \in agree : \A o \in agree : n <= o]
                 am == agree # {}
             IN  {Found(bs, matched_idx,
                      MatchResult(TRUE, IF am THEN Pct(100) ELSE Pct(95),
                          "normalized_exact", norm_title, norm_title,
                          ("author_match" :> am)), 2)}

\* Tier 2 of BookIndex.find_match: the first position of the bucket
NormalizedTier(self, m, bs, book) ==
    LET norm_title == NormTitle(self, book.title)
    IN  IF norm_title \notin DOMAIN m.norm THEN {}
        ELSE LET matched_idx == m.norm[norm_title][1]
                 am == AuthorsMatchOf(self, FirstAuthor(book),
                                      FirstAuthor(BookAt(bs, matched_idx)))
             IN  {Found(bs, matched_idx,
                      MatchResult(TRUE, IF am THEN Pct(100) ELSE Pct(95),
                          "normalized_exact", norm_title, norm_title,
                          ("author_match" :> am)), 2)}

\* Tier 3 of BookIndex.find_match: the first position of the bucket
AggressiveTier(self, m, bs, book) ==
    LET agg_title == AggTitle(self, book.title)
    IN  IF agg_title \notin DOMAIN m.agg THEN {}
        ELSE LET matched_idx == m.agg[agg_title][1]
                 am == AuthorsMatchOf(self, FirstAuthor(book),
                                      FirstAuthor(BookAt(bs, matched_idx)))
             IN  {Found(bs, matched_idx,
                      MatchResult(TRUE, IF am THEN Pct(95) ELSE Pct(90),
                          "aggressive_normalized", NormTitle(self, book.title),
                          NormTitle(self, BookAt(bs, matched_idx).title),
                          ("author_match" :> am)), 3)}

\* matcher.match of the query against the record at a position
MatchAgainst(self, bs, book, idx) ==
    Match(self, book.title, BookAt(bs, idx).title, FirstAuthor(book),
          FirstAuthor(BookAt(bs, idx)), ExtractIsbn(book), ExtractIsbn(BookAt(bs, idx)))

\* Tier 4 of BookIndex.find_match.  The loop keeps the first candidate, in
\* the iteration order of a Python set, among those of highest confidence
\* that clear the threshold; that order is not specified, so each of them
\* is a possible outcome.
NgramTier(self, m, bs, book, fuzzy_threshold) ==
    LET candidates == FindCandidatesByNgram(m, AggTitle(self, book.title), MIN_OVERLAP)
        result == [idx \in candidates |-> MatchAgainst(self, bs, book, idx)]
        passing == {idx \in candidates :
                       FLeq(fuzzy_threshold, result[idx].confidence)}
        best == {idx \in passing : \A o \in passing :
                       FLeq(result[o].confidence, result[idx].confidence)}
    IN  {Found(bs, idx, result[idx], 4) : idx \in best}

\* find_match with the standard-title tier tried before the identifier tier
FindMatchTitleFirst(self, m, bs, book, fuzzy_threshold) ==
    LET tier1 == IsbnTier(self, m, bs, book)
        tier2 == NormalizedTier(self, m, bs, book)
        tier3 == AggressiveTier(self, m, bs, book)
        tier4 == NgramTier(self, m, bs, book, fuzzy_threshold)
    IN  IF tier2 # {} THEN tier2
        ELSE IF tier1 # {} THEN tier1
        ELSE IF tier3 # {} THEN tier3
        ELSE IF tier4 # {} THEN tier4
        ELSE {NotFound}

\* BookIndex.find_match: the set of values the call may return
FindMatch(self, m, bs, book, fuzzy_threshold) ==
    LET tier1 == IsbnTier(self, m, bs, book)
        tier2 == NormalizedTier(self, m, bs, book)
        tier3 == AggressiveTier(self, m, bs, book)
        tier4 == NgramTier(self, m, bs, book, fuzzy_threshold)
    IN  IF tier1 # {} THEN tier1
        ELSE IF tier2 # {} THEN tier2
        ELSE IF tier3 # {} THEN tier3
        ELSE IF tier4 # {} THEN tier4
        ELSE {NotFound}

\* the orders in which a loop can run over a Python set
Orders(S) ==
    {f \in [1..Cardinality(S) -> S] : \A i, j \in 1..Cardinality(S) : f[i] = f[j] => i = j}

\* the elements of a set of positions as a list in increasing order
RECURSIVE AscendingSeq(_)
AscendingSeq(S) ==
    IF S = {} THEN <<>>
    ELSE LET x == CHOOSE y \in S : \A z \in S : y <= z
         IN  <<x>> \o AscendingSeq(S \ {x})

\* the candidates of find_all_matches taken out of the index: the bucket of
\* the standard title itself, not a set of its own
CandidatesFromBucket(m, agg_title, norm_title) ==
    IF norm_title \in DOMAIN m.norm
    THEN [ref |-> <<"normalized_index", norm_title>>, items |-> Range(m.norm[norm_title])]
    ELSE [ref |-> <<"new">>, items |-> FindCandidatesByNgram(m, agg_title, 20)]

\* candidates = self._find_candidates_by_ngram(agg_title, min_overlap=0.2):
\* the object the name is bound to (a set made by the call, which no
\* structure of the index holds) and its elements
Candidates(m, agg_title, norm_title) ==
    [ref |-> <<"new">>, items |-> FindCandidatesByNgram(m, agg_title, 20)]

\* the elements of candidates after the two calls of update
UpdatedCandidates(m, items, agg_title, norm_title) ==
    items \cup (IF norm_title \in DOMAIN m.norm THEN Range(m.norm[norm_title]) ELSE {})
          \cup (IF agg_title \in DOMAIN m.agg THEN Range(m.agg[agg_title]) ELSE {})

\* the index structures once the object behind ref holds items: update
\* changes the object it is called on, whoever else holds it
AfterUpdate(m, ref, items) ==
    IF ref[1] = "new" THEN m
    ELSE [m EXCEPT !.norm = Put(@, ref[2], m.norm[ref[2]] \o AscendingSeq(items \ Range(m.norm[ref[2]])))]

\* one element of the list find_all_matches returns
MatchAt(self, bs, book, idx) ==
    [book |-> BookAt(bs, idx), result |-> MatchAgainst(self, bs, book, idx), pos |-> idx]

\* list.sort(key=confidence, reverse=True) by insertion: x goes behind every
\* element of confidence not below its own, so equal elements keep their order
RECURSIVE InsertByConfidence(_, _)
InsertByConfidence(x, s) ==
    IF s = <<>> THEN <<x>>
    ELSE IF FLt(Head(s).result.confidence, x.result.confidence) THEN <<x>> \o s
    ELSE <<Head(s)>> \o InsertByConfidence(x, Tail(s))

\* sort without reverse=True
RECURSIVE SortAscending(_, _)
SortAscending(matches, sorted) ==
    IF matches = <<>> THEN sorted
    ELSE SortAscending(Tail(matches),
             IF sorted = <<>> \/ FLeq(sorted[Len(sorted)].result.confidence, Head(matches).result.confidence)
             THEN Append(sorted, Head(matches))
             ELSE <<Head(matches)>> \o sorted)

\* matches.sort(key=lambda x: x[1].confidence, reverse=True)
RECURSIVE SortByConfidence(_, _)
SortByConfidence(matches, sorted) ==
    IF matches = <<>> THEN sorted
    ELSE SortByConfidence(Tail(matches), InsertByConfidence(Head(matches), sorted))

\* the loop of find_all_matches over candidates in the order given, and the
\* sort
MatchesInOrder(self, bs, book, threshold, order) ==
    LET all == [i \in DOMAIN order |-> MatchAt(self, bs, book, order[i])]
        matches == SelectSeq(all, LAMBDA x : FLeq(threshold, x.result.confidence))
    IN  SortByConfidence(matches, <<>>)

\* BookIndex.find_all_matches: the lists it can return, one per order of the
\* loop over the set candidates, each with the index structures after the call
FindAllMatches(self, m, bs, book, threshold) ==
    LET agg_title == AggTitle(self, book.title)
        norm_title == NormTitle(self, book.title)
        candidates == Candidates(m, agg_title, norm_title)
        items == UpdatedCandidates(m, candidates.items, agg_title, norm_title)
    IN  {[matches |-> MatchesInOrder(self, bs, book, threshold, order),
          maps |-> AfterUpdate(m, candidates.ref, items)] : order \in Orders(items)}

\* ---------------------------------------------------------------- records

\* a v2 record with one edition of one print format
Record(title, authors, edition_number, isbn, work_id) ==
    [title |-> title, authors |-> authors, v2 |-> TRUE,
     editions |-> <<EditionRec(edition_number, <<FormatRec("print", isbn)>>)>>,
     isbn_or_issn |-> None, work_id |-> work_id]

\* a v1 record: no 'editions' key, the identifier in isbn_or_issn
RecordV1(title, authors, isbn, work_id) ==
    [title |-> title, authors |-> authors, v2 |-> FALSE, editions |-> <<>>,
     isbn_or_issn |-> isbn, work_id |-> work_id]

B1 == Record(T_BCDEF, <<A_SMITH>>, 1, I13A, "w1")
B2 == Record(T_UPPER, <<A_JONES>>, 1, None, "w2")
B3 == Record(T_BCDEF, <<A_SMITH>>, 1, None, "w3")
B4 == Record(T_UPPER, <<A_SMITH>>, 2, I13B, "w4")
B5 == Record(T_BCDEG, <<A_SMITH>>, 1, None, "w5")
B6 == Record(T_CDEFG, <<>>, 1, None, "w6")
B7 == Record(T_XYZ, <<A_JONES>>, 1, I13A_HYPHEN, "w7")
B8 == Record(T_BCDEG, <<A_SMITH>>, 1, I_BAD, "w8")
B9 == Record(T_TIGHT, <<>>, 1, None, "w9")
B13 == Record(T_PAREN, <<>>, 1, None, "w13")
B14 == Record(T_EMPTY, <<>>, 1, I13A, "w14")

\* the records the index is built from, added and queried with
BookPool == {B1, B2, B3, B4, B5, B6, B7, B8, B9, B13, B14}

\* the longest record list of an index
MaxBooks == 2

\* the longest list handed to build
MaxBuild == 2

\* the records of the lists handed to build: two records that carry the
\* same cleaned identifier under different titles
BuildPool == {B1, B7}

\* the lists over a set of at most n elements
ListsUpTo(S, n) == UNION {[1..k -> S] : k \in 0..n}

\* the fuzzy_threshold arguments of find_match: the default and 0.70
ThresholdPool == {MEDIUM_CONFIDENCE_THRESHOLD, LOW_CONFIDENCE_THRESHOLD}

\* the record of a call: its name, its record argument, its threshold, what
\* find_match or match returned, the position add returned and the branch
\* add_to_master took
Call(op, book, thr, ret, idx, branch) ==
    [op |-> op, book |-> book, thr |-> thr, ret |-> ret, idx |-> idx,
     branch |-> branch]

\* ------------------------------------------------------- BookIndex actions

\* BookIndex(): every structure empty
Init ==
    /\ books = <<>>
    /\ isbn_index = EmptyDict
    /\ normalized_index = EmptyDict
    /\ aggressive_index = EmptyDict
    /\ ngram_index = EmptyDict
    /\ last = Call("init", NoRecord, MEDIUM_CONFIDENCE_THRESHOLD, NotFound, -1, "")
    /\ master_records = <<>>
    /\ work_id_to_idx = EmptyDict
    /\ aliased = FALSE
    /\ counts = <<0, 0, 0>>
    /\ adding = NotAdding

\* the primed index structures take the value of m
SetMaps(m) ==
    /\ isbn_index' = m.isbn
    /\ normalized_index' = m.norm
    /\ aggressive_index' = m.agg
    /\ ngram_index' = m.ngram

\* build without the four clear() calls
BuildWithoutClear(bs) ==
    /\ books' = bs
    /\ SetMaps(BuildFrom(Matcher, Maps, bs, 0))
    /\ last' = Call("build", NoRecord, MEDIUM_CONFIDENCE_THRESHOLD, NotFound, -1, "")
    /\ UNCHANGED <<master_records, work_id_to_idx, aliased, counts, adding>>

\* BookIndex.build(bs): _books becomes the list handed in, the four
\* structures are cleared and every record is indexed
Build(bs) ==
    /\ books' = bs
    /\ SetMaps(BuildFrom(Matcher, EmptyMaps, bs, 0))
    /\ last' = Call("build", NoRecord, MEDIUM_CONFIDENCE_THRESHOLD, NotFound, -1, "")
    /\ UNCHANGED <<master_records, work_id_to_idx, aliased, counts, adding>>

\* add without its call of _index_book
AddWithoutIndex(book) ==
    /\ Len(books) < MaxBooks
    /\ books' = Append(books, book)
    /\ UNCHANGED <<isbn_index, normalized_index, aggressive_index, ngram_index>>
    /\ last' = Call("add", book, MEDIUM_CONFIDENCE_THRESHOLD, NotFound,
                    Len(books), "")
    /\ UNCHANGED <<master_records, work_id_to_idx, aliased, counts, adding>>

\* add taking idx = len(self._books) after the append
AddIndexAfterAppend(book) ==
    /\ Len(books) < MaxBooks
    /\ books' = Append(books, book)
    /\ SetMaps(IndexBook(Matcher, Maps, Len(books) + 1, book))
    /\ last' = Call("add", book, MEDIUM_CONFIDENCE_THRESHOLD, NotFound,
                    Len(books) + 1, "")
    /\ UNCHANGED <<master_records, work_id_to_idx, aliased, counts, adding>>

\* add putting the record at the head of the list and indexing the list anew
AddAtFront(book) ==
    /\ Len(books) < MaxBooks
    /\ books' = <<book>> \o books
    /\ SetMaps(BuildFrom(Matcher, EmptyMaps, <<book>> \o books, 0))
    /\ last' = Call("add", book, MEDIUM_CONFIDENCE_THRESHOLD, NotFound, 0, "")
    /\ UNCHANGED <<master_records, work_id_to_idx, aliased, counts, adding>>

\* BookIndex.add(book): append, index at the new position, return it
Add(book) ==
    /\ Len(books) < MaxBooks
    /\ books' = Append(books, book)
    /\ SetMaps(IndexBook(Matcher, Maps, Len(books), book))
    /\ last' = Call("add", book, MEDIUM_CONFIDENCE_THRESHOLD, NotFound,
                    Len(books), "")
    /\ UNCHANGED <<master_records, work_id_to_idx, aliased, counts, adding>>

\* BookIndex.find_match(book, fuzzy_threshold)
FindMatchCall(book, fuzzy_threshold) ==
    /\ \E ret \in FindMatch(Matcher, Maps, books, book, fuzzy_threshold) :
           last' = Call("find_match", book, fuzzy_threshold, ret, -1, "")
    /\ UNCHANGED <<index_vars, master_records, work_id_to_idx, aliased, counts, adding>>

Next ==
    \/ \E bs \in ListsUpTo(BuildPool, MaxBuild) : Build(bs)
    \/ \E book \in BookPool : Add(book)
    \/ \E book \in BookPool, thr \in ThresholdPool : FindMatchCall(book, thr)

Spec == Init /\ [][Next]_vars

\* ------------------------------------------------------------ build_master
\* Of a record's fields merge_records also writes data_sources, updated_at
\* and the editions' is_latest; the engine reads none of them and they are
\* left out.  Every format of the pool below has format_type "print", so
\* the append of a format to an edition already present (the one change
\* merge_records makes in place, on a dict the old record shares) finds
\* nothing to append.  A v1 record is modelled only under convert_v1 = False:
\* convert_record_v1_to_v2 is outside the model.

\* is_v2_record
IsV2Record(record) == record.v2

\* the formats of new_formats whose format_type the edition does not have
\* yet, appended to its formats (the inner loop of merge_records)
MergeFormats(existing_formats, new_formats) ==
    LET types == {existing_formats[i].format_type : i \in 1..Len(existing_formats)}
    IN  existing_formats \o
        SelectSeq(new_formats, LAMBDA f : f.format_type \notin types)

\* {e['edition_number']: e for e in editions}, from position i on
RECURSIVE EditionsByNumber(_, _, _)
EditionsByNumber(d, editions, i) ==
    IF i > Len(editions) THEN d
    ELSE EditionsByNumber(Put(d, editions[i].edition_number, editions[i]),
                          editions, i + 1)

\* the loop of merge_records over the new record's editions
RECURSIVE MergeEditions(_, _)
MergeEditions(existing_editions, new_editions) ==
    IF new_editions = <<>> THEN existing_editions
    ELSE LET new_edition == Head(new_editions)
             edition_num == new_edition.edition_number
         IN  MergeEditions(
                 IF edition_num \in DOMAIN existing_editions
                 THEN Put(existing_editions, edition_num,
                          EditionRec(edition_num,
                              MergeFormats(existing_editions[edition_num].formats,
                                           new_edition.formats)))
                 ELSE Put(existing_editions, edition_num, new_edition),
                 Tail(new_editions))

\* sorted(existing_editions.values(), key=edition_number, reverse=True)
RECURSIVE SortedEditions(_)
SortedEditions(d) ==
    IF DOMAIN d = {} THEN <<>>
    ELSE LET top == CHOOSE n \in DOMAIN d : \A o \in DOMAIN d : o <= n
         IN  <<d[top]>> \o SortedEditions([n \in DOMAIN d \ {top} |-> d[n]])

\* merge_records(existing, new, match_result)
MergeRecords(existing, new) ==
    [existing EXCEPT !.v2 = TRUE,
        !.editions = SortedEditions(
            MergeEditions(EditionsByNumber(EmptyDict, existing.editions, 1),
                          new.editions))]

\* {r.get('work_id', ''): i for i, r in enumerate(master_records)}, from
\* position i on
RECURSIVE WorkIdToIdx(_, _, _)
WorkIdToIdx(d, records, i) ==
    IF i >= Len(records) THEN d
    ELSE WorkIdToIdx(Put(d, BookAt(records, i).work_id, i), records, i + 1)

\* l[idx] = v on a list
SetAt(l, idx, v) == [l EXCEPT ![idx + 1] = v]

B10 == Record(T_BCDEF, <<A_SMITH>>, 2, I10X, "w10")
B11 == Record(T_BCDEG, <<A_JONES>>, 1, I10X, "w11")
B12 == RecordV1(T_XYZ, <<>>, I13B, "w12")

\* the records of the master file and of the sources added to it
MasterPool == {B1, B5, B6, B10, B11, B12}

\* the longest list new_records of a run of add_to_master
MaxNew == 3

\* the longest master file add_source loads
MaxLoad == 1

\* add_source up to its call of add_to_master, and the head of
\* add_to_master: the master list is loaded, BookIndex(master_records)
\* builds on that very list unless it is empty, the counts start at 0 and
\* work_id_to_idx is computed
AddSource(loaded) ==
    /\ master_records' = loaded
    /\ books' = loaded
    /\ SetMaps(BuildFrom(Matcher, EmptyMaps, loaded, 0))
    /\ aliased' = (loaded # <<>>)
    /\ work_id_to_idx' = WorkIdToIdx(EmptyDict, loaded, 0)
    /\ counts' = <<0, 0, 0>>
    /\ UNCHANGED adding
    /\ last' = Call("add_source", NoRecord, MEDIUM_CONFIDENCE_THRESHOLD, NotFound, -1, "")

\* init_master up to its call of add_to_master, and the head of
\* add_to_master: BookIndex() and an empty master list
InitMaster ==
    /\ master_records' = <<>>
    /\ books' = <<>>
    /\ SetMaps(EmptyMaps)
    /\ aliased' = FALSE
    /\ work_id_to_idx' = EmptyDict
    /\ counts' = <<0, 0, 0>>
    /\ UNCHANGED adding
    /\ last' = Call("init_master", NoRecord, MEDIUM_CONFIDENCE_THRESHOLD, NotFound, -1, "")

\* the branch of the loop body of add_to_master that skips a v1 record
\* (convert_v1 is False)
SkipRecord(record) ==
    /\ counts' = <<counts[1], counts[2], counts[3] + 1>>
    /\ UNCHANGED adding
    /\ last' = Call("add_to_master", record, MEDIUM_CONFIDENCE_THRESHOLD,
                    NotFound, -1, "skipped")
    /\ UNCHANGED <<index_vars, master_records, work_id_to_idx, aliased>>

\* the branch that merges the record into the master record of the matched
\* work_id; the index is not told, but sees the new record when its list is
\* the master list
MergeRecord(record, match) ==
    LET idx == work_id_to_idx[match.book.work_id]
        merged == MergeRecords(BookAt(master_records, idx), record)
    IN  /\ master_records' = SetAt(master_records, idx, merged)
        /\ books' = IF aliased THEN SetAt(master_records, idx, merged) ELSE books
        /\ counts' = <<counts[1], counts[2] + 1, counts[3]>>
        /\ UNCHANGED adding
        /\ last' = Call("add_to_master", record, MEDIUM_CONFIDENCE_THRESHOLD,
                        match, idx, "merged")
        /\ UNCHANGED <<isbn_index, normalized_index, aggressive_index,
                       ngram_index, work_id_to_idx, aliased>>

\* the two branches that append the record to the master list and add it
\* to the index: index.add appends once more when the two lists are one
AppendRecord(record, match) ==
    LET appended == Append(master_records, record)
        index_list == IF aliased THEN appended ELSE books
    IN  /\ books' = Append(index_list, record)
        /\ SetMaps(IndexBook(Matcher, Maps, Len(index_list), record))
        /\ master_records' = IF aliased THEN Append(appended, record) ELSE appended
        /\ work_id_to_idx' =
               Put(work_id_to_idx, record.work_id,
                   Len(IF aliased THEN Append(appended, record) ELSE appended) - 1)
        /\ counts' = <<counts[1] + 1, counts[2], counts[3]>>
        /\ UNCHANGED adding
        /\ last' = Call("add_to_master", record, MEDIUM_CONFIDENCE_THRESHOLD,
                        match, Len(index_list), "added")
        /\ UNCHANGED aliased

\* one pass of the loop of add_to_master, for the next record of new_records
AddToMaster(record) ==
    /\ counts[1] + counts[2] + counts[3] < MaxNew
    /\ IF ~IsV2Record(record) THEN SkipRecord(record)
       ELSE \E match \in FindMatch(Matcher, Maps, books, record, MEDIUM_CONFIDENCE_THRESHOLD) :
                IF match.found /\ match.book.work_id \in DOMAIN work_id_to_idx
                THEN MergeRecord(record, match)
                ELSE AppendRecord(record, match)

NextMaster ==
    \/ InitMaster
    \/ \E loaded \in ListsUpTo(MasterPool, MaxLoad) : AddSource(loaded)
    \/ \E record \in MasterPool : AddToMaster(record)

SpecMaster == Init /\ [][NextMaster]_vars

\* ------------------------------------------------------------ pure calls
\* The calls of match, of find_match and of candidate generation on drawn
\* inputs: the initial state holds the arguments (and, for the two calls on
\* an index, the index as BookIndex(records) leaves it), the one step of a
\* behaviour makes the call.

MatchArgs(title_a, title_b, author_a, author_b, isbn_a, isbn_b) ==
    [title_a |-> title_a, title_b |-> title_b, author_a |-> author_a,
     author_b |-> author_b, isbn_a |-> isbn_a, isbn_b |-> isbn_b]

\* what match returned, in the shape of what find_match returns
Returned(result) ==
    [found |-> TRUE, book |-> NoRecord, result |-> result, pos |-> -1, tier |-> 0]

\* Python computes 0.7 + 0.1 as 0.7999999999999999, below the sum 0.8 of the
\* exact scores of this model: the one pair of exact score 0.70 is drawn
\* only without a first author, so that no bonus is added to it.
ExactArithmetic(a) ==
    {a.title_a, a.title_b} = {T_XY, T_YXYXY} => a.author_a = None

\* the state of a BookIndex and its callers that hold nothing
EmptyIndex ==
    /\ books = <<>>
    /\ isbn_index = EmptyDict
    /\ normalized_index = EmptyDict
    /\ aggressive_index = EmptyDict
    /\ ngram_index = EmptyDict

NoMaster ==
    /\ master_records = <<>>
    /\ work_id_to_idx = EmptyDict
    /\ aliased = FALSE
    /\ counts = <<0, 0, 0>>
    /\ adding = NotAdding

\* the index holds the records bs and the structures m
IndexIs(bs, m) ==
    /\ books = bs
    /\ isbn_index = m.isbn
    /\ normalized_index = m.norm
    /\ aggressive_index = m.agg
    /\ ngram_index = m.ngram

\* the state of BookIndex(bs)
IndexOf(bs) == IndexIs(bs, BuildFrom(Matcher, EmptyMaps, bs, 0))

InitMatch ==
    /\ NoMaster
    /\ \/ \E bs \in ListsUpTo(BookPool, MaxBooks), book \in BookPool,
             thr \in ThresholdPool :
              /\ IndexOf(bs)
              /\ last = Call("call_find_match", book, thr, NotFound, -1, "")
       \/ /\ EmptyIndex
          /\ \E title_a \in MatchTitles, title_b \in MatchTitles,
                author_a \in AuthorPool, author_b \in AuthorPool,
                isbn_a \in IsbnPool, isbn_b \in IsbnPool :
                 /\ last = Call("call_match",
                                MatchArgs(title_a, title_b, author_a, author_b,
                                          isbn_a, isbn_b),
                                MEDIUM_CONFIDENCE_THRESHOLD, NotFound, -1, "")
                 /\ ExactArithmetic(last.book)

\* BookMatcher.match on the arguments held
MatchCall ==
    /\ last.op = "call_match"
    /\ last' = Call("match", last.book, last.thr,
                    Returned(Match(Matcher, last.book.title_a, last.book.title_b,
                                   last.book.author_a, last.book.author_b,
                                   last.book.isbn_a, last.book.isbn_b)),
                    -1, "")
    /\ UNCHANGED <<index_vars, master_records, work_id_to_idx, aliased, counts, adding>>

\* BookIndex.find_match on the arguments held
FindMatchReturn ==
    /\ last.op = "call_find_match"
    /\ FindMatchCall(last.book, last.thr)

NextMatch == MatchCall \/ FindMatchReturn

SpecMatch == InitMatch /\ [][NextMatch]_vars

\* BookIndex.add on the record held
AddReturn ==
    /\ last.op = "call_find_match"
    /\ Add(last.book)

NextIdentifier == MatchCall \/ FindMatchReturn \/ AddReturn

\* one call of match, find_match or add on the drawn arguments
SpecIdentifier == InitMatch /\ [][NextIdentifier]_vars

\* the threshold arguments of find_all_matches: the default, 0.90 and 0.95
ReviewThresholds == {LOW_CONFIDENCE_THRESHOLD, HIGH_CONFIDENCE_THRESHOLD, Pct(95)}

\* a BookIndex over drawn records and the arguments of one call of
\* find_match or find_all_matches on it
InitReview ==
    /\ NoMaster
    /\ \E bs \in ListsUpTo(BookPool, MaxBooks), book \in BookPool :
          /\ IndexOf(bs)
          /\ \/ \E thr \in ThresholdPool :
                   last = Call("call_find_match", book, thr, NotFound, -1, "")
             \/ \E thr \in ReviewThresholds :
                   last = Call("call_find_all_matches", book, thr, NotFound, -1, "")

\* what find_all_matches can return on the index as it is
AllMatches(book, threshold) == FindAllMatches(Matcher, Maps, books, book, threshold)

\* BookIndex.find_all_matches on the arguments held
FindAllMatchesReturn ==
    /\ last.op = "call_find_all_matches"
    /\ \E r \in AllMatches(last.book, last.thr) :
          /\ last' = Call("find_all_matches", last.book, last.thr,
                          [found |-> r.matches # <<>>, matches |-> r.matches], -1, "")
          /\ SetMaps(r.maps)
    /\ UNCHANGED <<books, master_records, work_id_to_idx, aliased, counts, adding>>

NextReview == FindMatchReturn \/ FindAllMatchesReturn

SpecReview == InitReview /\ [][NextReview]_vars

\* the records the adding thread and the reader use
ThreadBooks == {B1, B3, B5, B14}

\* add(book) up to and including self._books.append(book)
AddAppend(book) ==
    /\ adding.pc = "idle"
    /\ Len(books) < MaxBooks
    /\ books' = Append(books, book)
    /\ adding' = [pc |-> "isbn_index", book |-> book, idx |-> Len(books)]
    /\ UNCHANGED <<isbn_index, normalized_index, aggressive_index, ngram_index,
                   last, master_records, work_id_to_idx, aliased, counts>>

\* the four structures as _index_book leaves them for the record of the
\* call under way; each is written from its own former value alone
Indexed == IndexBook(Matcher, Maps, adding.idx, adding.book)

\* _index_book: the identifier map
AddIndexIsbn ==
    /\ adding.pc = "isbn_index"
    /\ isbn_index' = Indexed.isbn
    /\ adding' = [adding EXCEPT !.pc = "normalized_index"]
    /\ UNCHANGED <<books, normalized_index, aggressive_index, ngram_index,
                   last, master_records, work_id_to_idx, aliased, counts>>

\* _index_book: the standard title map
AddIndexNormalized ==
    /\ adding.pc = "normalized_index"
    /\ normalized_index' = Indexed.norm
    /\ adding' = [adding EXCEPT !.pc = "aggressive_index"]
    /\ UNCHANGED <<books, isbn_index, aggressive_index, ngram_index,
                   last, master_records, work_id_to_idx, aliased, counts>>

\* _index_book: the aggressive title map
AddIndexAggressive ==
    /\ adding.pc = "aggressive_index"
    /\ aggressive_index' = Indexed.agg
    /\ adding' = [adding EXCEPT !.pc = "ngram_index"]
    /\ UNCHANGED <<books, isbn_index, normalized_index, ngram_index,
                   last, master_records, work_id_to_idx, aliased, counts>>

\* _index_book: the posting sets
AddIndexNgrams ==
    /\ adding.pc = "ngram_index"
    /\ ngram_index' = Indexed.ngram
    /\ adding' = [adding EXCEPT !.pc = "return"]
    /\ UNCHANGED <<books, isbn_index, normalized_index, aggressive_index,
                   last, master_records, work_id_to_idx, aliased, counts>>

\* return idx
AddDone ==
    /\ adding.pc = "return"
    /\ last' = Call("add", adding.book, MEDIUM_CONFIDENCE_THRESHOLD, NotFound, adding.idx, "")
    /\ adding' = NotAdding
    /\ UNCHANGED <<index_vars, master_records, work_id_to_idx, aliased, counts>>

\* find_all_matches called by a reader, whatever add is doing
ReaderFindAllMatches(book, threshold) ==
    /\ \E r \in AllMatches(book, threshold) :
          /\ last' = Call("find_all_matches", book, threshold,
                          [found |-> r.matches # <<>>, matches |-> r.matches], -1, "")
          /\ SetMaps(r.maps)
    /\ UNCHANGED <<books, master_records, work_id_to_idx, aliased, counts, adding>>

\* one thread in add, statement by statement, and a reader that calls
\* find_match or find_all_matches between any two of its statements: the
\* class takes no lock
NextThreads ==
    \/ \E book \in ThreadBooks : AddAppend(book)
    \/ AddIndexIsbn
    \/ AddIndexNormalized
    \/ AddIndexAggressive
    \/ AddIndexNgrams
    \/ AddDone
    \/ \E book \in ThreadBooks, thr \in ThresholdPool : FindMatchCall(book, thr)
    \/ \E book \in ThreadBooks : ReaderFindAllMatches(book, LOW_CONFIDENCE_THRESHOLD)

SpecThreads == Init /\ [][NextThreads]_vars

\* the pieces the titles of the normalization runs are made of: a letter, a
\* space, a digit, 'e', an ordinal, 'edition', the middle dot U+30FB, a
\* bracketed text, a colon, an article and an ampersand
TitlePieces ==
    { <<"x">>, <<" ">>, <<"3">>, <<"e">>, <<"2","n","d">>,
      <<"e","d","i","t","i","o","n">>, <<"MIDDOT">>, <<"(","y",")">>, <<":">>,
      <<"t","h","e"," ">>, <<"&">> }

\* the most pieces in a title
MaxPieces == 3

\* the pieces of a list put together
RECURSIVE Concat(_)
Concat(pieces) == IF pieces = <<>> THEN <<>> ELSE Head(pieces) \o Concat(Tail(pieces))

\* a title and a normalization level
InitNormalize ==
    /\ NoMaster
    /\ EmptyIndex
    /\ \E pieces \in ListsUpTo(TitlePieces, MaxPieces), aggressive \in BOOLEAN :
          last = Call("call_normalize", [title |-> Concat(pieces), aggressive |-> aggressive],
                      MEDIUM_CONFIDENCE_THRESHOLD, NotFound, -1, "")

\* TitleNormalizer(aggressive).normalize(title)
NormalizeCall ==
    /\ last.op = "call_normalize"
    /\ last' = Call("normalize", last.book, last.thr,
                    [found |-> TRUE, once |-> Normalize(last.book.title, last.book.aggressive)],
                    -1, "")
    /\ UNCHANGED <<index_vars, master_records, work_id_to_idx, aliased, counts, adding>>

\* normalize called on what normalize returned, at the same level
NormalizeAgain ==
    /\ last.op = "normalize"
    /\ last' = Call("normalize_again", last.book, last.thr,
                    [found |-> TRUE, once |-> last.ret.once,
                     twice |-> Normalize(last.ret.once, last.book.aggressive)],
                    -1, "")
    /\ UNCHANGED <<index_vars, master_records, work_id_to_idx, aliased, counts, adding>>

NextNormalize == NormalizeCall \/ NormalizeAgain

SpecNormalize == InitNormalize /\ [][NextNormalize]_vars

\* the pieces the titles of the subtitle runs are made of: a word followed
\* by one of the separators ' - ', ': ', ' | ', ' / ', and a bare word
SubtitlePieces ==
    { <<"x"," ","-"," ">>, <<"y",":"," ">>, <<"z"," ","|"," ">>,
      <<"w"," ","/"," ">>, <<"v">> }

\* a title of words and separators and a normalization level
InitSubtitle ==
    /\ NoMaster
    /\ EmptyIndex
    /\ \E pieces \in ListsUpTo(SubtitlePieces, MaxPieces), aggressive \in BOOLEAN :
          last = Call("call_normalize", [title |-> Concat(pieces), aggressive |-> aggressive],
                      MEDIUM_CONFIDENCE_THRESHOLD, NotFound, -1, "")

NextSubtitle == NormalizeCall

SpecSubtitle == InitSubtitle /\ [][NextSubtitle]_vars

\* the records of a caller that builds an index on a list of its own
CallerPool == {B1, B3, B5}

\* a caller's list (held in master_records) and an index not yet built
InitCaller ==
    /\ EmptyIndex
    /\ \E records \in ListsUpTo(CallerPool, MaxBuild) : master_records = records
    /\ work_id_to_idx = EmptyDict
    /\ aliased = FALSE
    /\ counts = <<0, 0, 0>>
    /\ adding = NotAdding
    /\ last = Call("init", NoRecord, MEDIUM_CONFIDENCE_THRESHOLD, NotFound, -1, "")

\* index.build(records) on the caller's list: self._books = books makes
\* the caller's list object the index's record list
BuildOn ==
    /\ books' = master_records
    /\ aliased' = TRUE
    /\ SetMaps(BuildFrom(Matcher, EmptyMaps, master_records, 0))
    /\ last' = Call("build", NoRecord, MEDIUM_CONFIDENCE_THRESHOLD, NotFound, -1, "")
    /\ UNCHANGED <<master_records, work_id_to_idx, counts, adding>>

\* index.add(book): self._books.append(book) appends to the caller's list
\* too when the two names hold one list
AddAfterBuild(book) ==
    /\ Len(books) < MaxBooks
    /\ books' = Append(books, book)
    /\ master_records' = IF aliased THEN Append(books, book) ELSE master_records
    /\ SetMaps(IndexBook(Matcher, Maps, Len(books), book))
    /\ last' = Call("add", book, MEDIUM_CONFIDENCE_THRESHOLD, NotFound, Len(books), "")
    /\ UNCHANGED <<work_id_to_idx, aliased, counts, adding>>

\* records.append(book) by the caller on its own list
CallerAppend(book) ==
    /\ Len(master_records) < MaxBooks
    /\ master_records' = Append(master_records, book)
    /\ books' = IF aliased THEN Append(master_records, book) ELSE books
    /\ last' = Call("caller_append", book, MEDIUM_CONFIDENCE_THRESHOLD, NotFound, -1, "")
    /\ UNCHANGED <<isbn_index, normalized_index, aggressive_index, ngram_index,
                   work_id_to_idx, aliased, counts, adding>>

NextCaller ==
    \/ BuildOn
    \/ \E book \in CallerPool : AddAfterBuild(book)
    \/ \E book \in CallerPool : CallerAppend(book)

SpecCaller == InitCaller /\ [][NextCaller]_vars

\* the records of candidate generation: a title each
NgramPool == {Record(t, <<>>, 1, None, "w") : t \in NgramTitles}

InitNgram ==
    /\ NoMaster
    /\ \E bs \in ListsUpTo(NgramPool, MaxBooks), book \in NgramPool :
           /\ IndexOf(bs)
           /\ last = Call("call_candidates", book, MEDIUM_CONFIDENCE_THRESHOLD,
                          NotFound, -1, "")

\* self._find_candidates_by_ngram(agg_title) as find_match calls it, on the
\* aggressive-normalized title of the query held
CandidatesCall ==
    /\ last.op = "call_candidates"
    /\ last' = Call("candidates", last.book, last.thr,
                    [candidates |-> FindCandidatesByNgram(Maps,
                                        AggTitle(Matcher, last.book.title),
                                        MIN_OVERLAP)],
                    -1, "")
    /\ UNCHANGED <<index_vars, master_records, work_id_to_idx, aliased, counts, adding>>

NextNgram == CandidatesCall

SpecNgram == InitNgram /\ [][NextNgram]_vars

\* ------------------------------------------------------------- properties

\* the positions of the record list
Positions == 0..(Len(books) - 1)

\* the cleaned identifier of the record at a position, None if it has none
CleanAt(idx) == CleanIsbnOf(Matcher, ExtractIsbn(BookAt(books, idx)))

\* the keys under which the identifier map should hold a record: its cleaned
\* identifier and, when that has 13 characters, its first 12
IsbnKeys(book) ==
    LET c == CleanIsbnOf(Matcher, ExtractIsbn(book))
    IN  IF c = None THEN {}
        ELSE IF Len(c) = 13 THEN {c, SubSeq(c, 1, 12)}
        ELSE {c}

\* the distinct trigrams of a text (the text itself when it is shorter)
Trigrams(t) ==
    IF t = <<>> THEN {}
    ELSE IF Len(t) < 3 THEN {t}
    ELSE {SubSeq(t, j, j + 2) : j \in 1..(Len(t) - 2)}

\* the distinct trigrams of the aggressive-normalized title of a record
TrigramsOf(book) == Trigrams(AggTitle(Matcher, book.title))

\* the elements of a set of numbers in ascending order
RECURSIVE Ascending(_)
Ascending(S) ==
    IF S = {} THEN <<>>
    ELSE LET lo == CHOOSE x \in S : \A y \in S : x <= y
         IN  <<lo>> \o Ascending(S \ {lo})

\* the identifier map holds exactly the keys of the records of the list,
\* each with the last position that has it
IsbnIndexConsistent ==
    /\ DOMAIN isbn_index = UNION {IsbnKeys(BookAt(books, i)) : i \in Positions}
    /\ \A k \in DOMAIN isbn_index :
           /\ isbn_index[k] \in Positions
           /\ k \in IsbnKeys(BookAt(books, isbn_index[k]))
           /\ \A i \in Positions :
                  k \in IsbnKeys(BookAt(books, i)) => i <= isbn_index[k]

\* a title map holds exactly the non-empty titles of the records of the
\* list, each with the positions that have it in ascending order
TitleIndexConsistent(d, aggressive) ==
    LET KeyAt(i) == IF aggressive THEN AggTitle(Matcher, BookAt(books, i).title)
                    ELSE NormTitle(Matcher, BookAt(books, i).title)
    IN  /\ DOMAIN d = {KeyAt(i) : i \in Positions} \ {<<>>}
        /\ \A k \in DOMAIN d : d[k] = Ascending({i \in Positions : KeyAt(i) = k})

\* the posting map holds exactly the trigrams of the records of the list,
\* each with the set of positions that have it
NgramIndexConsistent ==
    /\ DOMAIN ngram_index = UNION {TrigramsOf(BookAt(books, i)) : i \in Positions}
    /\ \A g \in DOMAIN ngram_index :
           ngram_index[g] = {i \in Positions : g \in TrigramsOf(BookAt(books, i))}

\* add has returned the last position, the record is there and each of its
\* keys leads to that position
AddReflected ==
    last.op = "add" =>
        /\ last.idx = Len(books) - 1
        /\ BookAt(books, last.idx) = last.book
        /\ \A k \in IsbnKeys(last.book) :
               k \in DOMAIN isbn_index /\ isbn_index[k] = last.idx
        /\ LET k == NormTitle(Matcher, last.book.title)
           IN  k # <<>> => /\ k \in DOMAIN normalized_index
                           /\ normalized_index[k][Len(normalized_index[k])] = last.idx
        /\ LET k == AggTitle(Matcher, last.book.title)
           IN  k # <<>> => /\ k \in DOMAIN aggressive_index
                           /\ aggressive_index[k][Len(aggressive_index[k])] = last.idx
        /\ \A g \in TrigramsOf(last.book) :
               g \in DOMAIN ngram_index /\ last.idx \in ngram_index[g]

\* C1: after any sequence of build and add calls the four structures are
\* consistent with the record list (each holds exactly the keys of the
\* records of the list, with their positions), and when add returns, the
\* record it appended is reflected in all four.
IndexConsistentWithBooks ==
    /\ IsbnIndexConsistent
    /\ TitleIndexConsistent(normalized_index, FALSE)
    /\ TitleIndexConsistent(aggressive_index, TRUE)
    /\ NgramIndexConsistent
    /\ AddReflected

\* add has returned for a second record that has an identifier and falls
\* into the title bucket of the first
AddedToSharedBucket ==
    /\ last.op = "add"
    /\ last.idx = 1
    /\ IsbnKeys(last.book) # {}
    /\ NormTitle(Matcher, last.book.title) # <<>>
    /\ NormTitle(Matcher, BookAt(books, 0).title) = NormTitle(Matcher, last.book.title)
    /\ TrigramsOf(last.book) # {}

\* the query's cleaned identifier, or the 12-character prefix of its
\* 13-character identifier, is a key of the identifier map
IdentifierHit(book) ==
    LET c == CleanIsbnOf(Matcher, ExtractIsbn(book))
    IN  /\ c # None
        /\ \/ c \in DOMAIN isbn_index
           \/ Len(c) = 13 /\ SubSeq(c, 1, 12) \in DOMAIN isbn_index

\* the query's standard-normalized title is a key of the standard map
StandardHit(book) == NormTitle(Matcher, book.title) \in DOMAIN normalized_index

\* the query's aggressive-normalized title is a key of the aggressive map
AggressiveHit(book) == AggTitle(Matcher, book.title) \in DOMAIN aggressive_index

FuzzyTypes == {"fuzzy_high", "fuzzy_medium", "fuzzy_low", "no_match"}

\* the match_type of what find_match returned, "none" for None
ReturnedType(ret) == IF ret.found THEN ret.result.match_type ELSE "none"

\* C2: find_match tries identifier, standard title, aggressive title and
\* n-gram fuzzy in that order, each tier only when every earlier one yielded
\* nothing: an identifier hit gives an identifier result whatever the
\* titles, otherwise a standard-map hit gives normalized_exact, otherwise
\* an aggressive-map hit gives aggressive_normalized, and a fuzzy result or
\* none is returned only when none of the three hit.
TiersInOrder ==
    last.op = "find_match" =>
        LET q == last.book
            t == ReturnedType(last.ret)
        IN  /\ IdentifierHit(q) => t \in {"isbn_exact", "isbn_prefix"} /\ last.ret.tier = 1
            /\ ~IdentifierHit(q) /\ StandardHit(q) =>
                   t = "normalized_exact" /\ last.ret.tier = 2
            /\ ~IdentifierHit(q) /\ ~StandardHit(q) /\ AggressiveHit(q) =>
                   t = "aggressive_normalized" /\ last.ret.tier = 3
            /\ t \in FuzzyTypes \cup {"none"} =>
                   ~IdentifierHit(q) /\ ~StandardHit(q) /\ ~AggressiveHit(q)
            /\ last.ret.tier = 4 =>
                   ~IdentifierHit(q) /\ ~StandardHit(q) /\ ~AggressiveHit(q)

\* find_match has returned the identifier hit for a query whose title is in
\* the standard map under another record
IdentifierBeatsTitle ==
    /\ last.op = "find_match"
    /\ IdentifierHit(last.book)
    /\ StandardHit(last.book)
    /\ last.ret.found
    /\ last.ret.result.match_type = "isbn_exact"
    /\ last.ret.pos # normalized_index[NormTitle(Matcher, last.book.title)][1]

\* the MatchResult of the call that has returned
Result == last.ret.result

\* both identifiers are present, pass the validity pattern and are equal
\* once hyphens and whitespace are removed and the case is folded
SameValidIdentifier(a) ==
    /\ Truthy(a.isbn_a) /\ Truthy(a.isbn_b)
    /\ CleanIsbn(a.isbn_a) # None /\ CleanIsbn(a.isbn_b) # None
    /\ CleanIsbn(a.isbn_a) = CleanIsbn(a.isbn_b)

\* C3: when both identifiers given to match are present, valid and equal
\* after cleaning, the result is isbn_exact with is_match true and
\* confidence 1.0, whatever the titles and authors.
IdentifierDominance ==
    last.op = "match" /\ SameValidIdentifier(last.book) =>
        /\ Result.match_type = "isbn_exact"
        /\ Result.is_match
        /\ Result.confidence = Frac(1, 1)

\* match has returned isbn_exact for one identifier written in two ways on
\* two titles that share nothing and two different authors
SameIdentifierUnlikeTitles ==
    /\ last.op = "match"
    /\ last.book.isbn_a = I13A /\ last.book.isbn_b = I13A_HYPHEN
    /\ last.book.title_a = T_BCDEF /\ last.book.title_b = T_XYZ
    /\ last.book.author_a = A_SMITH /\ last.book.author_b = A_JONES
    /\ Result.match_type = "isbn_exact"

\* the confidence the fuzzy tier of match computes for the titles and
\* authors of a call
FuzzyConfidence(a) ==
    FuzzyMatch(Matcher, NormTitle(Matcher, a.title_a), NormTitle(Matcher, a.title_b),
               AggTitle(Matcher, a.title_a), AggTitle(Matcher, a.title_b),
               a.author_a, a.author_b, EmptyDict).confidence

\* C4: when the aggressive-normalized titles of a pair are equal, the
\* confidence match returns from an exact title tier is at least the
\* confidence its fuzzy tier would compute for the same titles and authors.
ExactNeverBelowFuzzy ==
    ( /\ last.op = "match"
      /\ AggTitle(Matcher, last.book.title_a) = AggTitle(Matcher, last.book.title_b)
      /\ Result.match_type \in {"normalized_exact", "aggressive_normalized"} )
    => FLeq(FuzzyConfidence(last.book), Result.confidence)

\* the number of distinct trigrams of the query that the record at a
\* position has
SharedTrigrams(query, idx) ==
    Cardinality(TrigramsOf(query) \cap TrigramsOf(BookAt(books, idx)))

\* the length of the query's trigram list
TotalQueryGrams(query) == Len(GenerateNgrams(AggTitle(Matcher, query.title), 3))

\* ceil(n * 0.3)
CeilOverlap(n) == (n * 30 + 99) \div 100

\* C5: candidate generation keeps a position only if the number of
\* distinct query trigrams it shares is at least
\* ceil(total_query_grams * 0.3).
CandidatesShareCeiling ==
    last.op = "candidates" =>
        \A idx \in last.ret.candidates :
            SharedTrigrams(last.book, idx) >= CeilOverlap(TotalQueryGrams(last.book))

\* two sets of trigrams of which each has at least 30% of its elements in
\* the other
ShareThirtyPercent(ga, gb) ==
    /\ ga # {} /\ gb # {}
    /\ 100 * Cardinality(ga \cap gb) >= 30 * Cardinality(ga)
    /\ 100 * Cardinality(ga \cap gb) >= 30 * Cardinality(gb)

\* C6: when the aggressive-normalized titles of the query and of an indexed
\* record share at least 30% of their trigrams, candidate generation with
\* min_overlap 0.3 includes that record, whichever of the two is the query
\* and also when the query's trigram list repeats a trigram.
NgramRecall ==
    last.op = "candidates" =>
        \A idx \in Positions :
            ShareThirtyPercent(TrigramsOf(last.book), TrigramsOf(BookAt(books, idx)))
                => idx \in last.ret.candidates

\* C7: when find_match returns a record, no other indexed record would
\* yield a strictly higher confidence (that of match on the query and that
\* record) for the same query.
ReturnsBestMatch ==
    last.op = "find_match" /\ last.ret.found =>
        \A idx \in Positions \ {last.ret.pos} :
            FLeq(MatchAgainst(Matcher, books, last.book, idx).confidence,
                 Result.confidence)

MatchingTypes == {"isbn_exact", "isbn_prefix", "normalized_exact",
                  "aggressive_normalized", "fuzzy_high", "fuzzy_medium"}

\* C8: a MatchResult of match or find_match has is_match true if and only
\* if its match_type is isbn_exact, isbn_prefix, normalized_exact,
\* aggressive_normalized, fuzzy_high or fuzzy_medium; the only other types
\* are fuzzy_low and no_match, with is_match false.
IsMatchIffMatchingType ==
    last.op \in {"match", "find_match"} /\ last.ret.found =>
        /\ Result.match_type \in MatchingTypes \cup {"fuzzy_low", "no_match"}
        /\ Result.is_match <=> Result.match_type \in MatchingTypes

\* find_match with threshold 0.70 has returned a fuzzy_low result
FuzzyLowReturned ==
    /\ last.op = "find_match"
    /\ last.ret.found
    /\ Result.match_type = "fuzzy_low"
    /\ ~Result.is_match

\* C9: find_match with its default threshold never returns a result with
\* is_match false, its n-gram tier returns only fuzzy_high or fuzzy_medium
\* results, and add_to_master never merges a record on a fuzzy_low or
\* no_match result.
FuzzyLowNeverMerged ==
    last.op = "add_to_master" /\ last.branch # "skipped" =>
        /\ last.ret.found => Result.is_match
        /\ last.ret.found /\ last.ret.tier = 4 =>
               Result.match_type \in {"fuzzy_high", "fuzzy_medium"}
        /\ last.branch = "merged" =>
               last.ret.found /\ Result.match_type \notin {"fuzzy_low", "no_match"}

\* match reaches its fuzzy tier: no equal valid identifiers and the titles
\* differ under both normalizations
FuzzyTierReached(a) ==
    /\ ~SameValidIdentifier(a)
    /\ NormTitle(Matcher, a.title_a) # NormTitle(Matcher, a.title_b)
    /\ AggTitle(Matcher, a.title_a) # AggTitle(Matcher, a.title_b)

\* the boosted score s of a call: the larger of the two title similarities,
\* plus 0.10 and capped at 1.0 when the primary authors match
BoostedScore(a) ==
    LET base == FMax(SimilarityOf(Matcher, NormTitle(Matcher, a.title_a),
                                  NormTitle(Matcher, a.title_b)),
                     SimilarityOf(Matcher, AggTitle(Matcher, a.title_a),
                                  AggTitle(Matcher, a.title_b)))
        boosted == FAdd(base, Frac(1, 10))
    IN  IF ~AuthorsMatchOf(Matcher, a.author_a, a.author_b) THEN base
        ELSE IF FLeq(Frac(1, 1), boosted) THEN Frac(1, 1)
        ELSE boosted

CleanOf(book) == CleanIsbnOf(Matcher, ExtractIsbn(book))

\* two valid 13-character identifiers that differ in the last character only
DiffersInLastOnly(c, d) ==
    /\ c # None /\ d # None
    /\ Len(c) = 13 /\ Len(d) = 13
    /\ SubSeq(c, 1, 12) = SubSeq(d, 1, 12)
    /\ c # d

\* C11: when the query's valid 13-character identifier differs only in the
\* last character from that of an indexed record and no indexed record has
\* the query's identifier, find_match returns such a record with
\* isbn_prefix, is_match true and confidence 0.98, whatever the titles.
PrefixHitReturnsWork ==
    ( /\ last.op = "find_match"
      /\ \E i \in Positions : DiffersInLastOnly(CleanOf(last.book), CleanAt(i))
      /\ \A i \in Positions : CleanAt(i) # CleanOf(last.book) )
    => /\ last.ret.found
       /\ DiffersInLastOnly(CleanOf(last.book), CleanOf(last.ret.book))
       /\ last.ret.book = BookAt(books, last.ret.pos)
       /\ Result.match_type = "isbn_prefix"
       /\ Result.is_match
       /\ Result.confidence = Frac(98, 100)

\* find_match has returned the prefix hit on a record whose title shares
\* nothing with the query's, next to a record that has the query's title
PrefixHitUnlikeTitle ==
    /\ last.op = "find_match"
    /\ Len(books) = 2
    /\ last.ret.found
    /\ Result.match_type = "isbn_prefix"
    /\ NormTitle(Matcher, last.book.title) # NormTitle(Matcher, last.ret.book.title)
    /\ TrigramsOf(last.book) \cap TrigramsOf(last.ret.book) = {}
    /\ StandardHit(last.book)

\* the query carries no identifier and its aggressive-normalized title has
\* no trigram in common with that of any indexed record
NoIdentifierNoOverlap(q) ==
    /\ ~Truthy(ExtractIsbn(q))
    /\ \A i \in Positions : TrigramsOf(q) \cap TrigramsOf(BookAt(books, i)) = {}

\* C12 as stated: find_match on a record without identifier whose
\* aggressive-normalized title shares no trigram with any indexed record
\* returns none, also when that title is empty and the standard-normalized
\* title is not.
NoOverlapReturnsNone ==
    last.op = "find_match" /\ NoIdentifierNoOverlap(last.book) => ~last.ret.found

\* C12 as amended: such a query gets none unless its standard-normalized
\* title is a key of the standard map, which takes an empty
\* aggressive-normalized title; then the first record of that title is
\* returned as normalized_exact.
NoOverlapReturnsNoneOrSameTitle ==
    last.op = "find_match" /\ NoIdentifierNoOverlap(last.book) =>
        IF StandardHit(last.book)
        THEN /\ AggTitle(Matcher, last.book.title) = <<>>
             /\ last.ret.found
             /\ Result.match_type = "normalized_exact"
             /\ last.ret.book.title = last.book.title
        ELSE ~last.ret.found

\* find_match has returned none on a non-empty index for a query without
\* identifier whose title is only bracketed text
BracketedTitleNotFound ==
    /\ last.op = "find_match"
    /\ books # <<>>
    /\ NoIdentifierNoOverlap(last.book)
    /\ NormTitle(Matcher, last.book.title) # <<>>
    /\ AggTitle(Matcher, last.book.title) = <<>>
    /\ ~last.ret.found

\* the position of the last indexed record whose identifier cleans to c
LastWithIsbn(c) ==
    CHOOSE i \in Positions : CleanAt(i) = c /\ \A j \in Positions : CleanAt(j) = c => j <= i

Malformed(isbn) ==
    /\ Truthy(isbn)
    /\ ~IsbnPattern(SelectSeq(isbn, LAMBDA c : c \notin ({"-"} \cup Whitespace)))

\* the record with every identifier field None
WithoutIsbn(book) ==
    [book EXCEPT !.isbn_or_issn = None,
                 !.editions = [e \in DOMAIN @ |->
                     [@[e] EXCEPT !.formats = [f \in DOMAIN @ |->
                         [@[f] EXCEPT !.isbn = None]]]]]

\* the record, without its identifier when that is malformed
AbsentIfMalformed(book) ==
    IF Malformed(ExtractIsbn(book)) THEN WithoutIsbn(book) ELSE book

\* the identifier, None when it is malformed
NoneIfMalformed(isbn) == IF Malformed(isbn) THEN None ELSE isbn

\* what a result of find_match or match says: found or not, the position of
\* the matched record, the match type and the confidence
Outcome(ret) ==
    IF ret.found
    THEN <<TRUE, ret.pos, ret.result.match_type, ret.result.confidence, ret.result.is_match>>
    ELSE <<FALSE>>

\* the outcomes of find_match(q, thr) on the index built from bs
OutcomesOn(bs, q, thr) ==
    {Outcome(r) : r \in FindMatch(Matcher, BuildFrom(Matcher, EmptyMaps, bs, 0), bs, q, thr)}

\* the outcome of match on the arguments a
MatchOutcome(a) ==
    Outcome(Returned(Match(Matcher, a.title_a, a.title_b, a.author_a, a.author_b, a.isbn_a, a.isbn_b)))

\* find_match gives for a query with a malformed identifier, and on an index
\* one of whose records has one, what it gives with that identifier absent
FindMatchIgnoresMalformed ==
    last.op = "find_match" =>
        /\ Outcome(last.ret) \in OutcomesOn(books, AbsentIfMalformed(last.book), last.thr)
        /\ \A i \in DOMAIN books :
              Outcome(last.ret) \in
                  OutcomesOn([books EXCEPT ![i] = AbsentIfMalformed(@)], last.book, last.thr)

\* match gives for a malformed identifier what it gives for None in its place
MatchIgnoresMalformed ==
    last.op = "match" =>
        /\ Outcome(last.ret) = MatchOutcome([last.book EXCEPT !.isbn_a = NoneIfMalformed(@)])
        /\ Outcome(last.ret) = MatchOutcome([last.book EXCEPT !.isbn_b = NoneIfMalformed(@)])

\* add of a record with a malformed identifier leaves the identifier map as
\* it was
AddIgnoresMalformed ==
    (last'.op = "add" /\ Malformed(ExtractIsbn(last'.book))) => isbn_index' = isbn_index

\* C14: a malformed identifier is treated as an absent one: find_match and
\* match give the same matched record, match type and confidence for a
\* record whose identifier fails the validity pattern as for that record
\* without identifier, and add of such a record leaves the identifier map
\* unchanged.
MalformedIsAbsent ==
    /\ [](FindMatchIgnoresMalformed /\ MatchIgnoresMalformed)
    /\ [][AddIgnoresMalformed]_vars

\* find_match has matched a query carrying a malformed identifier to an
\* indexed record by its title
MalformedQueryMatchedByTitle ==
    /\ last.op = "find_match"
    /\ Malformed(ExtractIsbn(last.book))
    /\ last.ret.found
    /\ last.ret.tier = 2
    /\ isbn_index # EmptyDict

\* the record list and structures after add(r) for each r of rs in order,
\* from the list and structures of st
RECURSIVE AddEach(_, _)
AddEach(st, rs) ==
    IF rs = <<>> THEN st
    ELSE AddEach([books |-> Append(st.books, Head(rs)),
                  maps  |-> IndexBook(Matcher, st.maps, Len(st.books), Head(rs))],
                 Tail(rs))

\* C15: after build(R), whatever the index held before, the record list and
\* the four structures are those of an empty index to which each record of
\* R has been added in order.
BuildIsAddEach ==
    last.op = "build" =>
        [books |-> books, maps |-> Maps] = AddEach([books |-> <<>>, maps |-> EmptyMaps], books)

\* build has returned on a list of two records that share an identifier
BuiltTwoRecords ==
    /\ last.op = "build"
    /\ Len(books) = 2
    /\ books[1] # books[2]
    /\ CleanAt(0) = CleanAt(1)

\* the record has a valid identifier or a non-empty standard-normalized title
Findable(book) == CleanOf(book) # None \/ NormTitle(Matcher, book.title) # <<>>

\* C16: once add(r) has returned, whatever records are added after it,
\* r is in the record list with its identifier and its title in the maps,
\* and find_match(r), for r with a valid identifier or a non-empty
\* standard-normalized title, returns a result with is_match true and
\* confidence at least 0.95.
AddedIsFound ==
    /\ \A i \in Positions :
          LET r == BookAt(books, i)
          IN  /\ CleanOf(r) # None => CleanOf(r) \in DOMAIN isbn_index
              /\ NormTitle(Matcher, r.title) # <<>> =>
                    /\ NormTitle(Matcher, r.title) \in DOMAIN normalized_index
                    /\ i \in Range(normalized_index[NormTitle(Matcher, r.title)])
    /\ ( /\ last.op = "find_match"
         /\ \E i \in Positions : BookAt(books, i) = last.book
         /\ Findable(last.book) )
       => /\ last.ret.found
          /\ Result.is_match
          /\ FLeq(Frac(95, 100), Result.confidence)

\* find_match of the first of two added records, one without title, has
\* returned the second, added after it under the same identifier
AddedFoundAsLaterRecord ==
    /\ last.op = "find_match"
    /\ Len(books) = 2
    /\ last.book = books[1]
    /\ last.book.title = <<>>
    /\ last.ret.found
    /\ last.ret.pos = 1
    /\ books[2] # books[1]

\* C17: find_match and find_all_matches only read: over a call of either,
\* the record list, the identifier map, both title maps and every posting
\* set stay as they were.
QueriesOnlyRead ==
    [][last'.op \in {"find_match", "find_all_matches"} =>
          /\ books' = books
          /\ isbn_index' = isbn_index
          /\ normalized_index' = normalized_index
          /\ aggressive_index' = aggressive_index
          /\ ngram_index' = ngram_index]_vars

\* find_all_matches has returned a record its n-gram candidates held next to
\* the one the standard map holds for the query's title
ReviewAddedExactHits ==
    /\ last.op = "find_all_matches"
    /\ Len(last.ret.matches) = 2
    /\ StandardHit(last.book)
    /\ \E i \in 1..2 :
          NormTitle(Matcher, last.ret.matches[i].book.title) # NormTitle(Matcher, last.book.title)

\* the record at position p has the query's standard-normalized or
\* aggressive-normalized title, and that title is not empty
SameTitle(q, p) ==
    \/ /\ NormTitle(Matcher, q.title) # <<>>
       /\ NormTitle(Matcher, BookAt(books, p).title) = NormTitle(Matcher, q.title)
    \/ /\ AggTitle(Matcher, q.title) # <<>>
       /\ AggTitle(Matcher, BookAt(books, p).title) = AggTitle(Matcher, q.title)

\* C19: the list find_all_matches returns is in non-increasing order of
\* confidence, each of its elements has confidence at least the threshold,
\* and for a threshold of at most 0.90 it holds every indexed record whose
\* non-empty standard-normalized or aggressive-normalized title is the
\* query's.
ReviewListSortedAndComplete ==
    last.op = "find_all_matches" =>
        LET matches == last.ret.matches
        IN  /\ \A i, j \in DOMAIN matches :
                  i < j => FLeq(matches[j].result.confidence, matches[i].result.confidence)
            /\ \A i \in DOMAIN matches :
                  /\ FLeq(last.thr, matches[i].result.confidence)
                  /\ matches[i].pos \in Positions
                  /\ matches[i].book = BookAt(books, matches[i].pos)
            /\ FLeq(last.thr, Pct(90)) =>
                  \A p \in Positions :
                      SameTitle(last.book, p) => \E i \in DOMAIN matches : matches[i].pos = p

\* find_all_matches with threshold 0.90 has returned two records of
\* different confidence, the second on its aggressive-normalized title alone
ReviewListTwoTiers ==
    /\ last.op = "find_all_matches"
    /\ last.thr = Pct(90)
    /\ Len(last.ret.matches) = 2
    /\ last.ret.matches[1].result.confidence # last.ret.matches[2].result.confidence
    /\ last.ret.matches[2].result.match_type = "aggressive_normalized"

\* every record of the list is in every structure it belongs in, and the
\* structures hold nothing else
WholeRecords == Maps = BuildFrom(Matcher, EmptyMaps, books, 0)

\* C18: a reader that runs find_match or find_all_matches between two steps
\* of add never finds a record that is in the record list or in some of the
\* structures and missing from the others.
ReaderSeesWholeRecords ==
    [][(last'.op \in {"find_match", "find_all_matches"} /\ adding' = adding /\ books' = books)
          => WholeRecords]_vars

\* C20: normalize(normalize(t)) = normalize(t) for every title t, in
\* standard mode and in aggressive mode.
NormalizeIdempotent ==
    last.op = "normalize_again" => last.ret.twice = last.ret.once

\* every position of a title map is a position of the list whose record
\* has the key as its title at that level, and each list is strictly
\* ascending
TitleEntriesSound(d, aggressive) ==
    \A k \in DOMAIN d :
        /\ \A j \in 1..Len(d[k]) :
              /\ d[k][j] \in Positions
              /\ k = (IF aggressive THEN AggTitle(Matcher, BookAt(books, d[k][j]).title)
                      ELSE NormTitle(Matcher, BookAt(books, d[k][j]).title))
        /\ \A i, j \in 1..Len(d[k]) : i < j => d[k][i] < d[k][j]

\* C21: after any sequence of build and add calls every entry of the four
\* structures is sound: each stored position is below the number of
\* records and the record there produces the key, no title-map list holds
\* a position twice and each list is in ascending order.
EntriesSound ==
    /\ \A k \in DOMAIN isbn_index :
          /\ isbn_index[k] \in Positions
          /\ k \in IsbnKeys(BookAt(books, isbn_index[k]))
    /\ TitleEntriesSound(normalized_index, FALSE)
    /\ TitleEntriesSound(aggressive_index, TRUE)
    /\ \A g \in DOMAIN ngram_index :
          \A i \in ngram_index[g] :
              i \in Positions /\ g \in TrigramsOf(BookAt(books, i))

\* build has returned on a list whose two records share a title bucket and
\* have an identifier
BuiltSharedBucket ==
    /\ last.op = "build"
    /\ \E k \in DOMAIN normalized_index : Len(normalized_index[k]) = 2
    /\ \E k \in DOMAIN isbn_index : Len(k) = 12
    /\ \E g \in DOMAIN ngram_index : Cardinality(ngram_index[g]) = 2

\* every list of the title map d is the beginning of its list in e
ListsOnlyGrow(d, e) ==
    \A k \in DOMAIN d :
        /\ k \in DOMAIN e
        /\ Len(d[k]) <= Len(e[k])
        /\ SubSeq(e[k], 1, Len(d[k])) = d[k]

\* C22: add returns the number of records indexed before the call, the
\* record count grows by exactly one, every record indexed before keeps its
\* position and content, and no position leaves a title-map list or a
\* posting set.
AddOnlyGrows ==
    [][last'.op = "add" =>
          /\ last'.idx = Len(books)
          /\ Len(books') = Len(books) + 1
          /\ SubSeq(books', 1, Len(books)) = books
          /\ ListsOnlyGrow(normalized_index, normalized_index')
          /\ ListsOnlyGrow(aggressive_index, aggressive_index')
          /\ \A g \in DOMAIN ngram_index :
                g \in DOMAIN ngram_index' /\ ngram_index[g] \subseteq ngram_index'[g]]_vars

\* add has returned 1 for a record whose identifier the first record has
\* too: the identifier map now leads to the new record
AddedOverIdentifier ==
    /\ last.op = "add"
    /\ last.idx = 1
    /\ CleanAt(0) # None
    /\ isbn_index[CleanAt(0)] = 1
    /\ books[1] # books[2]

\* the positions of the records whose standard (aggressive) normalized
\* title is the given non-empty key
Sharers(key, aggressive) ==
    {i \in Positions :
        key # <<>> /\ key = (IF aggressive THEN AggTitle(Matcher, BookAt(books, i).title)
                             ELSE NormTitle(Matcher, BookAt(books, i).title))}

\* the lowest position of a set of positions
Earliest(S) == CHOOSE i \in S : \A j \in S : i <= j

\* the result is the record at the position, of the type, with the higher
\* confidence when the primary authors match and the lower one otherwise
ReturnsAt(idx, type, high, low) ==
    /\ last.ret.found
    /\ last.ret.pos = idx
    /\ last.ret.book = BookAt(books, idx)
    /\ Result.match_type = type
    /\ Result.confidence =
          (IF AuthorsMatchOf(Matcher, FirstAuthor(last.book),
                             FirstAuthor(BookAt(books, idx)))
           THEN high ELSE low)

PrefixPair(isbn_a, isbn_b) ==
    /\ Truthy(isbn_a) /\ Truthy(isbn_b)
    /\ LET a == CleanIsbnOf(Matcher, isbn_a)
           b == CleanIsbnOf(Matcher, isbn_b)
       IN  /\ a # None /\ b # None
           /\ Len(a) = 13 /\ Len(b) = 13
           /\ a # b
           /\ SubSeq(a, 1, 12) = SubSeq(b, 1, 12)

\* C24: BookMatcher.match on two valid, unequal 13-character identifiers
\* with the same first 12 characters gives the match_type, is_match,
\* confidence and normalized titles of the same call without identifiers,
\* its details are those of that call plus the prefix signal, and no call
\* of match gives the type of the identifier-prefix tier
PrefixOnlyInDetails ==
    last.op = "match" =>
       /\ Result.match_type \notin {"isbn_prefix", "identifier_prefix"}
       /\ PrefixPair(last.book.isbn_a, last.book.isbn_b) =>
             LET without == Match(Matcher, last.book.title_a, last.book.title_b,
                                  last.book.author_a, last.book.author_b, None, None)
             IN  /\ Result.match_type = without.match_type
                 /\ Result.is_match = without.is_match
                 /\ Result.confidence = without.confidence
                 /\ Result.normalized_title_a = without.normalized_title_a
                 /\ Result.normalized_title_b = without.normalized_title_b
                 /\ "isbn_prefix_match" \notin DOMAIN without.details
                 /\ Result.details = without.details @@ ("isbn_prefix_match" :> TRUE)

\* match on a prefix pair of identifiers and unlike titles returned no_match
PrefixPairNoMatch ==
    /\ last.op = "match"
    /\ PrefixPair(last.book.isbn_a, last.book.isbn_b)
    /\ ~Result.is_match
    /\ Result.match_type = "no_match"
    /\ "isbn_prefix_match" \in DOMAIN Result.details

\* the author names that are missing, empty, or normalize to the empty
\* name
AbsentAuthors ==
    {author \in AuthorPool :
        \/ author = None
        \/ author = <<>>
        \/ NormalizeAuthor(author) = <<>>}

\* the author name counts as absent
AbsentAuthor(author) == author \in AbsentAuthors

\* the result on the two titles carries a base confidence: 0.95 and 0.90
\* in the two title tiers, the larger of the two similarities in the fuzzy
\* tier, and details that record no author match
BaseConfidence(result, title_a, title_b) ==
    /\ result.match_type = "normalized_exact" => result.confidence = Pct(95)
    /\ result.match_type = "aggressive_normalized" => result.confidence = Pct(90)
    /\ result.match_type \in {"fuzzy_high", "fuzzy_medium", "fuzzy_low", "no_match"} =>
          result.confidence =
             FMax(SimilarityOf(Matcher, NormTitle(Matcher, title_a),
                               NormTitle(Matcher, title_b)),
                  SimilarityOf(Matcher, AggTitle(Matcher, title_a),
                               AggTitle(Matcher, title_b)))
    /\ "author_match" \in DOMAIN result.details => ~result.details["author_match"]

\* C25: when either primary author is missing, empty, or normalizes to the
\* empty name, match and find_match return 0.95 for normalized_exact and
\* 0.90 for aggressive_normalized, and a result of the fuzzy tier carries
\* the similarity without the 0.10 author bonus
AbsentAuthorNeverMatches ==
    /\ ( /\ last.op = "match"
         /\ AbsentAuthor(last.book.author_a) \/ AbsentAuthor(last.book.author_b) )
       => BaseConfidence(Result, last.book.title_a, last.book.title_b)
    /\ ( /\ last.op = "find_match"
         /\ last.ret.found
         /\ \/ AbsentAuthor(FirstAuthor(last.book))
            \/ AbsentAuthor(FirstAuthor(last.ret.book)) )
       => BaseConfidence(Result, last.book.title, last.ret.book.title)

\* match of two equal titles with the same honorific-only author name on
\* both sides returned normalized_exact at 0.95
HonorificOnlyAuthorsBase ==
    /\ last.op = "match"
    /\ last.book.author_a = A_DR
    /\ last.book.author_b = A_DR
    /\ Result.match_type = "normalized_exact"
    /\ Result.confidence = Pct(95)

\* the text that step 10 of aggressive normalization works on: the title
\* after steps 1 to 9
SubtitleText(title) ==
    StripArticles(ARTICLES,
        StripBrackets(
            CollapseWhitespace(
                NormalizePunctuation(
                    LowerStr(
                        RemoveEditions(EDITION_PATTERNS,
                            MapChars(KANJI_NUMBERS,
                                MapChars(BRACKET_MAP,
                                    FullwidthToHalfwidth(NFKC(title))))))))))

\* the positions of the text at which a subtitle separator starts
SeparatorStarts(text) ==
    {p \in 1..Len(text) :
        \E n \in 1..Len(SUBTITLE_SEPARATORS) : StartsWithAt(SUBTITLE_SEPARATORS[n], text, p)}

\* the text before the earliest occurrence of any separator
BeforeEarliestSeparator(text) ==
    IF SeparatorStarts(text) = {} THEN text
    ELSE SubSeq(text, 1, Earliest(SeparatorStarts(text)) - 1)

\* C26: aggressive normalization keeps only the text before the earliest
\* occurrence of any subtitle separator, so its output holds no text that
\* followed a separator
CutAtEarliestSeparator ==
    ( /\ last.op = "normalize"
      /\ last.book.aggressive
      /\ last.book.title # <<>> )
    => last.ret.once = RemoveWhitespace(BeforeEarliestSeparator(SubtitleText(last.book.title)))

\* C27: the index owns its record list: after build on a caller's list, add
\* leaves the caller's list as the caller left it, and an append by the
\* caller to its list leaves the index's record count, which is the
\* position the next add returns, unchanged
IndexOwnsList ==
    [][ /\ last'.op = "add" => master_records' = master_records
        /\ last'.op = "caller_append" => Len(books') = Len(books) ]_vars

\* the number of positions of the list that hold the record
Copies(records, record) == Cardinality({i \in 1..Len(records) : records[i] = record})

\* C28: in every pass of the loop of add_to_master the master list grows by
\* exactly the growth of the added count: a merged or skipped record leaves
\* its length alone, an added record is appended once, at the position
\* that work_id_to_idx then holds for its work_id
AddedExactlyOnce ==
    [][ last'.op = "add_to_master" =>
          /\ Len(master_records') = Len(master_records) + (counts'[1] - counts[1])
          /\ last'.branch = "added" =>
                /\ counts'[1] = counts[1] + 1
                /\ SubSeq(master_records', 1, Len(master_records)) = master_records
                /\ Copies(master_records', last'.book) = Copies(master_records, last'.book) + 1
                /\ work_id_to_idx'[last'.book.work_id] = Len(master_records)
          /\ last'.branch \in {"merged", "skipped"} => counts'[1] = counts[1] ]_vars

\* C29: whenever find_match with its default threshold returns a record,
\* find_all_matches of the same query with its default threshold 0.70 holds
\* that record too, whichever tier of find_match found it
FindMatchInReviewList ==
    ( /\ last.op = "find_match"
      /\ last.thr = MEDIUM_CONFIDENCE_THRESHOLD
      /\ last.ret.found )
    => \A r \in AllMatches(last.book, LOW_CONFIDENCE_THRESHOLD) :
          \E n \in 1..Len(r.matches) : r.matches[n].pos = last.ret.pos

\* the positions of the records whose cleaned identifier is c
SameIdentifier(c) == {i \in Positions : CleanAt(i) = c}

\* the positions of the records whose cleaned 13-character identifier has
\* the first 12 characters of the 13-character identifier c
SamePrefix(c) ==
    {i \in Positions :
        /\ Len(c) = 13
        /\ CleanAt(i) # None
        /\ Len(CleanAt(i)) = 13
        /\ SubSeq(CleanAt(i), 1, 12) = SubSeq(c, 1, 12)}

\* the highest position of a set of positions
Latest(S) == CHOOSE i \in S : \A j \in S : j <= i

\* every record of the list is in the title maps and posting sets under
\* its own non-empty titles
AllInTitleStructures ==
    \A i \in Positions :
        LET norm_title == NormTitle(Matcher, BookAt(books, i).title)
            agg_title == AggTitle(Matcher, BookAt(books, i).title)
        IN  /\ norm_title # <<>> =>
                  /\ norm_title \in DOMAIN normalized_index
                  /\ i \in Range(normalized_index[norm_title])
            /\ agg_title # <<>> =>
                  /\ agg_title \in DOMAIN aggressive_index
                  /\ i \in Range(aggressive_index[agg_title])
                  /\ \A g \in Trigrams(agg_title) :
                        g \in DOMAIN ngram_index /\ i \in ngram_index[g]

\* C30 as stated: among the records that share the query's cleaned
\* identifier or the 12-character prefix of its 13-character identifier,
\* the identifier tier of find_match returns the most recently added, and no
\* earlier one of them is reachable through that tier
LatestOfIdentifierOrPrefix ==
    ( /\ last.op = "find_match"
      /\ CleanOf(last.book) # None
      /\ SameIdentifier(CleanOf(last.book)) \cup SamePrefix(CleanOf(last.book)) # {} )
    => /\ last.ret.found
       /\ last.ret.tier = 1
       /\ last.ret.pos =
             Latest(SameIdentifier(CleanOf(last.book)) \cup SamePrefix(CleanOf(last.book)))

\* C30: the identifier map holds one position per key and the latest writer
\* wins: a query whose cleaned identifier is that of indexed records gets
\* the most recently added of them as isbn_exact; a query whose identifier
\* is no record's and whose 12-character prefix is shared by indexed
\* 13-character identifiers gets the most recently added of those as
\* isbn_prefix; every record stays in the list and in the title and
\* trigram structures
LatestWriterPerKey ==
    /\ \A k \in DOMAIN isbn_index : isbn_index[k] \in Positions
    /\ AllInTitleStructures
    /\ ( /\ last.op = "find_match"
         /\ CleanOf(last.book) # None )
       => LET same == SameIdentifier(CleanOf(last.book))
              prefix == SamePrefix(CleanOf(last.book))
          IN  /\ same # {} =>
                    /\ last.ret.found
                    /\ last.ret.pos = Latest(same)
                    /\ Result.match_type = "isbn_exact"
              /\ (same = {} /\ prefix # {}) =>
                    /\ last.ret.found
                    /\ last.ret.pos = Latest(prefix)
                    /\ Result.match_type = "isbn_prefix"

\* find_match returned the second of two unlike records of one cleaned
\* identifier, the first of which is still in its title bucket
LaterOfSameIdentifierReturned ==
    /\ last.op = "find_match"
    /\ Len(books) = 2
    /\ books[1] # books[2]
    /\ CleanOf(last.book) # None
    /\ SameIdentifier(CleanOf(last.book)) = {0, 1}
    /\ last.ret.pos = 1
    /\ Result.match_type = "isbn_exact"
    /\ NormTitle(Matcher, books[1].title) # <<>>
    /\ 0 \in Range(normalized_index[NormTitle(Matcher, books[1].title)])

====
